---- MODULE Spec2Model ----
(***************************************************************************)
(* A model of the stoicheia patch/quilt engine: the Patch algebra          *)
(* (src/src/patch.rs), the Axis model (src/src/axis.rs), the catalog's     *)
(* commit and fetch pipeline (src/src/catalog.rs) and the SQLite storage   *)
(* transaction (src/src/sqlite.rs).                                        *)
(***************************************************************************)
EXTENDS Integers, Sequences, FiniteSets, TLC

(***************************************************************************)
(* Bounds of the model.                                                    *)
(***************************************************************************)
\* Labels of the "x" axis are 1..MaxLabelX.
MaxLabelX == 3
\* The clock ticks at most this many times in one behaviour.
MaxTicks == 1
\* At most this many create_commit calls are made in one behaviour.
MaxCommits == 2
\* At most this many transactions are begun in one behaviour.
MaxTxns == 2
\* Number of threads that call txn() in the locking specification.
NThreads == 2

\* The element cap of fetch in the calls of fetch alone (the program's cap is
\* MaxPatchElems).
SmallFetchElems == 2

\* The size cap of the splitter in the calls of the splitter alone, in
\* elements (the program's cap is SplitCap).
SmallCap == 2

\* The width in bits of the indices get_block works on (the program's are
\* u64).
WordBits == 4

\* The element cap of Patch::new in the calls of merge on drawn operands
\* (the program's cap is MaxPatchElems).
SmallPatchElems == 2

(***************************************************************************)
(* Program constants.                                                      *)
(***************************************************************************)
\* std::f32::NAN, the "no value" cell; every real value of the model is >= 1.
NaN == 0
\* 1 << 60, the open end of an undeclared dimension; cut to TLC's 32 bit
\* integers (no index of the model comes near either number).
Unbounded == 1073741824
\* 256 << 20, the largest element count of a patch.
MaxPatchElems == 268435456
\* The splitter's size cap, 1 Mi elements.
SplitCap == 1048576
\* txn() makes ten lock attempts.
LockAttempts == 10

(***************************************************************************)
(* Sequences.                                                              *)
(***************************************************************************)
Range(s) == {s[i] : i \in DOMAIN s}

\* slice::iter().position(): the first index (1-based) holding e, 0 if none.
IndexOf(s, e) ==
    IF e \in Range(s) THEN CHOOSE i \in DOMAIN s : s[i] = e /\ \A j \in 1..(i - 1) : s[j] # e
    ELSE 0

\* HashMap<Label, usize> collected from enumerate(): a later duplicate wins.
LastIndexOf(s, e) ==
    IF e \in Range(s) THEN CHOOSE i \in DOMAIN s : s[i] = e /\ \A j \in (i + 1)..Len(s) : s[j] # e
    ELSE 0

RECURSIVE Product(_)
Product(s) == IF s = <<>> THEN 1 ELSE Head(s) * Product(Tail(s))

RECURSIVE SetToSortedSeq(_)
SetToSortedSeq(S) ==
    IF S = {} THEN <<>>
    ELSE LET m == CHOOSE x \in S : \A y \in S : x <= y
         IN <<m>> \o SetToSortedSeq(S \ {m})

\* Body of a value computed once, as a let binding of the code.
With(value, Body(_)) == Body(value)

(***************************************************************************)
(* Axis (src/src/axis.rs).                                                 *)
(***************************************************************************)
MkAxis(name, labels) == [name |-> name, labels |-> labels]

\* sort_unstable, one insertion at a time: l put into the sorted vector s.
RECURSIVE InsertSorted(_, _)
InsertSorted(l, s) ==
    IF s = <<>> THEN <<l>>
    ELSE IF l <= Head(s) THEN <<l>> \o s
    ELSE <<Head(s)>> \o InsertSorted(l, Tail(s))

\* check_distinct's l after l.sort_unstable().
RECURSIVE SortLabels(_)
SortLabels(labels) ==
    IF labels = <<>> THEN <<>> ELSE InsertSorted(Head(labels), SortLabels(Tail(labels)))

\* A scan of the neighbours of the labels as they come, without the sort, to
\* compare Axis::check_distinct with.
CheckDistinctUnsorted(labels) ==
    \A i \in 2..Len(labels) : labels[i - 1] # labels[i]

\* Axis::check_distinct: Ok iff no two neighbours of the sorted labels are
\* equal.
CheckDistinct(labels) ==
    \A i \in 2..Len(labels) : SortLabels(labels)[i - 1] # SortLabels(labels)[i]

\* A union that takes a label of other for new when it differs from the last
\* label of self, to compare Axis::union with.
AxisUnionSkippingLast(selfLabels, otherLabels) ==
    LET isNew(l) == selfLabels = <<>> \/ l # selfLabels[Len(selfLabels)]
    IN selfLabels \o SelectSeq(otherLabels, isNew)

\* Axis::union: the labels after self.union(other).  The hash set is built from
\* self before anything is appended.
AxisUnion(selfLabels, otherLabels) ==
    LET isNew(l) == l \notin Range(selfLabels)
    IN selfLabels \o SelectSeq(otherLabels, isNew)

\* A return value that is true whenever other has a label, to compare
\* Axis::union's return value with.
AxisUnionMutatedIfAny(selfLabels, otherLabels) == otherLabels # <<>>

\* Axis::union's return value.
AxisUnionMutated(selfLabels, otherLabels) ==
    \E i \in DOMAIN otherLabels : otherLabels[i] \notin Range(selfLabels)

(***************************************************************************)
(* Patch (src/src/patch.rs).  A patch is [axes, dense]: axes a sequence of *)
(* Axis values, dense a function from index tuples (1-based, one index per *)
(* declared axis; the trailing dimensions of the 4-d array have length 1)  *)
(* to values.                                                              *)
(***************************************************************************)
Shape(p) == [i \in DOMAIN p.axes |-> Len(p.axes[i].labels)]

AxisNamesOf(p) == [i \in DOMAIN p.axes |-> p.axes[i].name]

\* The index tuples of a dense array of the given shape.
IndexSpace(shape) ==
    LET n == Len(shape)
        m == IF n = 0 THEN 0
             ELSE CHOOSE k \in Range(shape) : \A j \in Range(shape) : j <= k
    IN {ix \in [1..n -> 1..m] : \A i \in 1..n : ix[i] <= shape[i]}

\* Patch::len: the number of elements of the dense array.
PatchLen(p) == Product(Shape(p))

\* Patch::new(axes, None): Ok iff there is an axis and the size is in range.
PatchNewOk(axes) ==
    /\ Len(axes) >= 1
    /\ Product([i \in DOMAIN axes |-> Len(axes[i].labels)]) <= MaxPatchElems

\* Patch::new(axes, None): a NaN-filled patch.
PatchNew(axes) ==
    [axes |-> axes,
     dense |-> [ix \in IndexSpace([i \in DOMAIN axes |-> Len(axes[i].labels)]) |-> NaN]]

\* Patch::apply's first check: the two sorted lists of axis names are equal.
SameNameSet(p, q) ==
    /\ Len(p.axes) = Len(q.axes)
    /\ \A n \in Range(AxisNamesOf(p)) \cup Range(AxisNamesOf(q)) :
          Cardinality({i \in DOMAIN p.axes : p.axes[i].name = n})
            = Cardinality({i \in DOMAIN q.axes : q.axes[i].name = n})

ApplyOk(self, pat) == SameNameSet(self, pat)

\* Patch::apply: the kind of the error, "none" for Ok.
ApplyErr(self, pat) == IF ApplyOk(self, pat) THEN "none" ELSE "InvalidValue"

\* An apply that aligns the axes by name but copies cell for cell by position,
\* without looking at the labels, to compare Patch::apply with.
ApplyPositional(self, pat) ==
    IF PatchLen(self) = 0 \/ PatchLen(pat) = 0 THEN self
    ELSE
    LET n == Len(self.axes)
        axisShuffle == [i \in 1..n |-> IndexOf(AxisNamesOf(pat), self.axes[i].name)]
        unshuffle(j) == CHOOSE i \in 1..n : axisShuffle[i] = j
        source(ix) == [j \in 1..n |-> ix[unshuffle(j)]]
    IN [self EXCEPT !.dense =
            [ix \in DOMAIN self.dense |->
                IF source(ix) \in DOMAIN pat.dense /\ pat.dense[source(ix)] # NaN
                THEN pat.dense[source(ix)] ELSE self.dense[ix]]]

\* Patch::apply: self after self.apply(pat), for ApplyOk(self, pat).
\*   axisShuffle[i]     the axis of pat named like self's i-th axis
\*   labelShuffle[i][k] the index in that axis of self's k-th label, 0 if none
\*   gathered(ix)       the cell of pat pulled to self's index ix, NaN when a
\*                      label of ix is missing from pat
Apply(self, pat) ==
    IF PatchLen(self) = 0 \/ PatchLen(pat) = 0 THEN self
    ELSE
    LET n == Len(self.axes)
        axisShuffle == [i \in 1..n |-> IndexOf(AxisNamesOf(pat), self.axes[i].name)]
        labelShuffle == [i \in 1..n |->
                           [k \in DOMAIN self.axes[i].labels |->
                              LastIndexOf(pat.axes[axisShuffle[i]].labels,
                                          self.axes[i].labels[k])]]
        unshuffle(j) == CHOOSE i \in 1..n : axisShuffle[i] = j
        gathered(ix) ==
            IF \E i \in 1..n : labelShuffle[i][ix[i]] = 0 THEN NaN
            ELSE pat.dense[[j \in 1..n |-> labelShuffle[unshuffle(j)][ix[unshuffle(j)]]]]
    IN [self EXCEPT !.dense =
            [ix \in DOMAIN self.dense |->
                IF gathered(ix) # NaN THEN gathered(ix) ELSE self.dense[ix]]]

RECURSIVE MergeAxes(_, _)
MergeAxes(axes, rest) ==
    IF rest = <<>> THEN axes
    ELSE MergeAxes([i \in DOMAIN axes |->
                      MkAxis(axes[i].name, AxisUnion(axes[i].labels, Head(rest).axes[i].labels))],
                   Tail(rest))

\* A merge that asks the operands for the axis names of the first in any
\* order, to compare Patch::merge's check with.
MergeErrCapByNameSet(cap, operands) ==
    IF operands = <<>> THEN "InvalidValue"
    ELSE IF \E k \in DOMAIN operands : ~SameNameSet(operands[k], operands[1])
    THEN "InvalidValue"
    ELSE IF Len(operands[1].axes) < 1 THEN "MisalignedAxes"
    ELSE IF Product([i \in DOMAIN operands[1].axes |->
                       Len(MergeAxes(operands[1].axes, Tail(operands))[i].labels)]) > cap
    THEN "TooLarge"
    ELSE "none"

\* Patch::merge where Patch::new allocates at most cap elements: the kind of
\* the error, "none" for Ok.  There must be an operand, every operand must
\* have the axis names of the first in the same order, and Patch::new must
\* accept the unions of the axes.
MergeErrCap(cap, operands) ==
    IF operands = <<>> THEN "InvalidValue"
    ELSE IF \E k \in DOMAIN operands : AxisNamesOf(operands[k]) # AxisNamesOf(operands[1])
    THEN "InvalidValue"
    ELSE IF Len(operands[1].axes) < 1 THEN "MisalignedAxes"
    ELSE IF Product([i \in DOMAIN operands[1].axes |->
                       Len(MergeAxes(operands[1].axes, Tail(operands))[i].labels)]) > cap
    THEN "TooLarge"
    ELSE "none"

\* Patch::merge: Ok or not.
MergeOk(operands) == MergeErrCap(MaxPatchElems, operands) = "none"

RECURSIVE ApplyAll(_, _)
ApplyAll(target, operands) ==
    IF operands = <<>> THEN target
    ELSE ApplyAll(Apply(target, Head(operands)), Tail(operands))

\* A merge that applies the operands last to first, to compare Patch::merge
\* with.
MergeLastToFirst(operands) ==
    ApplyAll(PatchNew(MergeAxes(operands[1].axes, Tail(operands))),
             [k \in DOMAIN operands |-> operands[Len(operands) + 1 - k]])

\* Patch::merge: a NaN-filled target over the per-axis unions, with every
\* operand applied in order.
Merge(operands) ==
    ApplyAll(PatchNew(MergeAxes(operands[1].axes, Tail(operands))), operands)

\* Patch::compact's keep_indices: on each axis, the planes holding a value.
KeepIndices(p) ==
    [i \in DOMAIN p.axes |->
        SetToSortedSeq({k \in DOMAIN p.axes[i].labels :
                          \E ix \in DOMAIN p.dense : ix[i] = k /\ p.dense[ix] # NaN})]

\* A compaction that drops the planes but keeps the leading labels of every
\* axis instead of the labels of the planes kept, to compare Patch::compact
\* with.
CompactKeepingLeadingLabels(p) ==
    LET keep == KeepIndices(p)
        totalNew == Product([i \in DOMAIN keep |-> Len(keep[i])])
    IN IF 4 * totalNew < 3 * PatchLen(p)
       THEN [axes |-> [i \in DOMAIN p.axes |->
                         MkAxis(p.axes[i].name, SubSeq(p.axes[i].labels, 1, Len(keep[i])))],
             dense |-> [ix \in IndexSpace([i \in DOMAIN keep |-> Len(keep[i])]) |->
                          p.dense[[i \in DOMAIN keep |-> keep[i][ix[i]]]]]]
       ELSE p

\* Patch::compact: drop the planes without a value when that saves a quarter.
Compact(p) ==
    LET keep == KeepIndices(p)
        totalNew == Product([i \in DOMAIN keep |-> Len(keep[i])])
    IN IF 4 * totalNew < 3 * PatchLen(p)
       THEN [axes |-> [i \in DOMAIN p.axes |->
                         MkAxis(p.axes[i].name,
                                [k \in DOMAIN keep[i] |-> p.axes[i].labels[keep[i][k]]])],
             dense |-> [ix \in IndexSpace([i \in DOMAIN keep |-> Len(keep[i])]) |->
                          p.dense[[i \in DOMAIN keep |-> keep[i][ix[i]]]]]]
       ELSE p

\* The value a patch holds for a tuple of labels given by axis name, NaN when
\* the patch does not have one of the labels.
CellOf(p, byName) ==
    LET ix == [i \in DOMAIN p.axes |-> IndexOf(p.axes[i].labels, byName[p.axes[i].name])]
    IN IF \E i \in DOMAIN ix : ix[i] = 0 THEN NaN ELSE p.dense[ix]

(***************************************************************************)
(* Serialization (src/src/patch.rs).  The stream is the PatchTag followed  *)
(* by the encoded patch.                                                   *)
(***************************************************************************)
Magic == 1229935699
FormatVersion == 1

\* Patch::serialize with a compression type.
Serialize(p, compression) ==
    [magic |-> Magic, version |-> FormatVersion, compression |-> compression,
     payload |-> p]

\* Patch::deserialize_from: reads the tag, then decodes the payload by the
\* tag's compression type.
Deserialize(bytes) == bytes.payload

(***************************************************************************)
(* The catalog's tables (src/src/sqlite.rs).                               *)
(*   axisNames   Axis(axis_name)                                           *)
(*   axes        AxisContent, per axis the labels by global_storage_index  *)
(*   quilts      quilt(quilt_name -> axes)                                 *)
(*   patches     Patch(patch_id -> comm_id, decompressed_size, box)        *)
(*   contents    PatchContent(patch_id -> content)                         *)
(*   comms       Comm(comm_id -> parent_comm_id)                           *)
(*   tags        Tag((quilt_name, tag_name) -> comm_id)                    *)
(***************************************************************************)
AxisNameSet == {"x", "y"}
QuiltNames == {"q"}
TagNames == {"latest", "dev"}

\* A null parent_comm_id.
NoParent == 0

EmptyDb ==
    [axisNames |-> {},
     axes |-> [n \in AxisNameSet |-> <<>>],
     quilts |-> <<>>,
     patches |-> <<>>,
     contents |-> <<>>,
     comms |-> <<>>,
     tags |-> <<>>]

\* A table with one row added or replaced.
Put(table, key, row) == (key :> row) @@ table

\* A table with one row deleted.
Del(table, key) == [k \in (DOMAIN table) \ {key} |-> table[k]]

\* get_axis: the labels seen through the per-transaction cache.
GetAxis(db, cache, name) ==
    IF name \in DOMAIN cache THEN cache[name] ELSE db.axes[name]

\* get_axis: the cache after the call.
CacheAfterGet(db, cache, name) ==
    IF name \in DOMAIN cache THEN cache ELSE Put(cache, name, db.axes[name])

\* INSERT OR IGNORE INTO AxisContent(axis_name, label): the table is keyed by
\* (axis_name, label) and a new row takes the next global_storage_index.
InsertOrIgnore(stored, l) ==
    IF l \in Range(stored) THEN stored ELSE Append(stored, l)

\* An insert loop after which the rows come back ordered by label, to compare
\* union_axis's insert loop with.
InsertLabelsByLabel(stored, labels, existing) ==
    LET isNew(l) == l \notin existing
    IN SortLabels(stored \o SelectSeq(labels, isNew))

\* union_axis's insert loop: INSERT OR IGNORE of every label that is not in
\* existing_labels.
RECURSIVE InsertLabels(_, _, _)
InsertLabels(stored, labels, existing) ==
    IF labels = <<>> THEN stored
    ELSE LET l == Head(labels)
         IN IF l \notin existing
            THEN InsertLabels(InsertOrIgnore(stored, l), Tail(labels), existing)
            ELSE InsertLabels(stored, Tail(labels), existing)

\* union_axis: [db, cache, ret] after the call.
\* A union_axis that returns true whenever it was given a label, to compare
\* the count of changes with.
UnionAxisCountingTrials(db, cache, axis) ==
    With(InsertLabels(db.axes[axis.name], axis.labels,
                      Range(GetAxis(db, cache, axis.name))), LAMBDA stored :
    With((IF axis.name \in db.axisNames THEN 0 ELSE 1)
           + (Len(stored) - Len(db.axes[axis.name])), LAMBDA changes :
      [db |-> [db EXCEPT !.axisNames = @ \cup {axis.name},
                         !.axes[axis.name] = stored],
       cache |-> IF changes > 0
                 THEN [CacheAfterGet(db, cache, axis.name) EXCEPT
                          ![axis.name] = AxisUnion(@, axis.labels)]
                 ELSE CacheAfterGet(db, cache, axis.name),
       ret |-> changes > 0 \/ axis.labels # <<>>]))

\* A union_axis that leaves the cached axis as get_axis loaded it, to compare
\* the repair of the cache with.
UnionAxisStaleCache(db, cache, axis) ==
    With(InsertLabels(db.axes[axis.name], axis.labels,
                      Range(GetAxis(db, cache, axis.name))), LAMBDA stored :
    With((IF axis.name \in db.axisNames THEN 0 ELSE 1)
           + (Len(stored) - Len(db.axes[axis.name])), LAMBDA changes :
      [db |-> [db EXCEPT !.axisNames = @ \cup {axis.name},
                         !.axes[axis.name] = stored],
       cache |-> CacheAfterGet(db, cache, axis.name),
       ret |-> changes > 0]))

UnionAxis(db, cache, axis) ==
    With(InsertLabels(db.axes[axis.name], axis.labels,
                      Range(GetAxis(db, cache, axis.name))), LAMBDA stored :
    With((IF axis.name \in db.axisNames THEN 0 ELSE 1)
           + (Len(stored) - Len(db.axes[axis.name])), LAMBDA changes :
      [db |-> [db EXCEPT !.axisNames = @ \cup {axis.name},
                         !.axes[axis.name] = stored],
       cache |-> IF changes > 0
                 THEN [CacheAfterGet(db, cache, axis.name) EXCEPT
                          ![axis.name] = AxisUnion(@, axis.labels)]
                 ELSE CacheAfterGet(db, cache, axis.name),
       ret |-> changes > 0]))

\* get_bounding_box: per declared axis of the patch, the first and the last
\* 0-based position of the global axis whose label the patch has.
GetBoundingBox(ax, patch) ==
    [d \in 1..4 |->
        IF d <= Len(patch.axes)
        THEN LET global == ax[patch.axes[d].name]
                 hits == {i \in DOMAIN global : global[i] \in Range(patch.axes[d].labels)}
             IN IF hits = {} THEN <<0, Unbounded>>
                ELSE <<(CHOOSE i \in hits : \A j \in hits : i <= j) - 1,
                       (CHOOSE i \in hits : \A j \in hits : i >= j) - 1>>
        ELSE <<0, Unbounded>>]

\* A join condition that leaves the upper ends out, to compare search's join
\* condition with.
IntersectsBelowMax(box, q) ==
    \A d \in 1..4 : box[d][2] > q[d][1] /\ box[d][1] < q[d][2]

\* search's join condition: the boxes intersect, both ends inclusive.
Intersects(box, q) ==
    \A d \in 1..4 : box[d][2] >= q[d][1] /\ box[d][1] <= q[d][2]

\* search's CommitAncestry, from commit c following parent_comm_id.
RECURSIVE Ancestry(_, _)
Ancestry(db, c) ==
    {c} \cup (IF c \in DOMAIN db.comms /\ db.comms[c] # NoParent
              THEN Ancestry(db, db.comms[c]) ELSE {})

\* ORDER BY comm_id ASC, patch_id ASC.
RefBefore(db, a, b) ==
    \/ db.patches[a].comm_id < db.patches[b].comm_id
    \/ db.patches[a].comm_id = db.patches[b].comm_id /\ a <= b

\* An ordering by patch_id alone, to compare ORDER BY comm_id, patch_id with.
RECURSIVE OrderRefsById(_, _)
OrderRefsById(db, ids) ==
    IF ids = {} THEN <<>>
    ELSE LET m == CHOOSE a \in ids : \A b \in ids : a <= b
         IN <<m>> \o OrderRefsById(db, ids \ {m})

RECURSIVE OrderRefs(_, _)
OrderRefs(db, ids) ==
    IF ids = {} THEN <<>>
    ELSE LET m == CHOOSE a \in ids : \A b \in ids : RefBefore(db, a, b)
         IN <<m>> \o OrderRefs(db, ids \ {m})

\* search: the ids of the patches in scope whose box meets one of the boxes,
\* grouped and ordered.
Search(db, quilt, tag, deep, boxes) ==
    LET scope == IF <<quilt, tag>> \notin DOMAIN db.tags THEN {}
                 ELSE IF deep THEN Ancestry(db, db.tags[<<quilt, tag>>])
                 ELSE {db.tags[<<quilt, tag>>]}
    IN OrderRefs(db, {id \in DOMAIN db.patches :
                        /\ db.patches[id].comm_id \in scope
                        /\ \E b \in Range(boxes) : Intersects(db.patches[id].box, b)})

(***************************************************************************)
(* Selections and fetch (src/src/catalog.rs).                              *)
(***************************************************************************)
SelAll == [kind |-> "All", labels |-> <<>>, lo |-> 0, hi |-> 0]
SelLabels(L) == [kind |-> "Labels", labels |-> L, lo |-> 0, hi |-> 0]
SelLabelSlice(lo, hi) == [kind |-> "LabelSlice", labels |-> <<>>, lo |-> lo, hi |-> hi]
SelStorageSlice(s, e) == [kind |-> "StorageSlice", labels |-> <<>>, lo |-> s, hi |-> e]

\* seq[from..to), 0-based like a Rust slice.
Slice(s, from, to) == [i \in 1..(to - from) |-> s[from + i]]

\* get_axis_from_selection: [ok, labels, segment] for one axis, lab being the
\* labels of the global axis.
GetAxisFromSelection(lab, sel) ==
    LET len == Len(lab)
    IN CASE sel.kind = "All" ->
             [ok |-> TRUE, labels |-> lab, segment |-> <<0, len>>]
         [] sel.kind = "Labels" ->
             LET labelset == Range(lab)
                 hits == {i \in DOMAIN lab : lab[i] \in labelset}
                 startIx == IF hits = {} THEN len
                            ELSE (CHOOSE i \in hits : \A j \in hits : i <= j) - 1
                 tail == {i \in hits : i > startIx}
                 endIx == IF tail = {} THEN 0
                          ELSE (CHOOSE i \in tail : \A j \in tail : i >= j) - 1 - startIx
             IN [ok |-> CheckDistinct(sel.labels), labels |-> sel.labels,
                 segment |-> <<startIx, endIx>>]
         [] sel.kind = "LabelSlice" ->
             LET startIx == IF IndexOf(lab, sel.lo) = 0 THEN len
                            ELSE IndexOf(lab, sel.lo) - 1
                 rest == Slice(lab, startIx, len)
                 endRel == IF IndexOf(rest, sel.hi) = 0 THEN 0
                           ELSE IndexOf(rest, sel.hi) - 1
                 endIx == IF 1 + startIx + endRel < len THEN 1 + startIx + endRel ELSE len
             IN [ok |-> TRUE, labels |-> Slice(lab, startIx, endIx),
                 segment |-> <<startIx, endIx>>]
         [] sel.kind = "StorageSlice" ->
             IF sel.lo <= sel.hi /\ sel.hi <= len
             THEN [ok |-> TRUE, labels |-> Slice(lab, sel.lo, sel.hi),
                   segment |-> <<sel.lo, sel.hi>>]
             ELSE [ok |-> FALSE, labels |-> <<>>, segment |-> <<0, 0>>]

\* The selections taken from the end of the request as it came, to compare
\* fetch's reverse-and-pop with.
SelectionFromEnd(request, i) ==
    IF i <= Len(request) THEN request[Len(request) + 1 - i] ELSE SelAll

\* fetch's request.reverse() and request.pop() per axis of the quilt: the
\* i-th selection, All when the request has run out.
SelectionFor(request, i) ==
    IF i <= Len(request) THEN request[i] ELSE SelAll

\* get_patch: Ok iff the content row exists.
GetPatchOk(db, id) == id \in DOMAIN db.contents

GetPatch(db, id) == Deserialize(db.contents[id])

\* fetch's loop: apply the patches of refs in order; [ok, patch].
RECURSIVE FetchApply(_, _, _)
FetchApply(db, target, refs) ==
    IF refs = <<>> THEN [ok |-> TRUE, err |-> "none", patch |-> target, read |-> 0]
    ELSE IF ~GetPatchOk(db, Head(refs))
    THEN [ok |-> FALSE, err |-> "NotFound", patch |-> target, read |-> 1]
    ELSE IF ~ApplyOk(target, GetPatch(db, Head(refs)))
    THEN [ok |-> FALSE, err |-> "InvalidValue", patch |-> target, read |-> 1]
    ELSE With(FetchApply(db, Apply(target, GetPatch(db, Head(refs))), Tail(refs)),
              LAMBDA rest : [rest EXCEPT !.read = @ + 1])

\* The patch refs fetch reads, in the order it applies them.
FetchRefs(db, ax, quilt, tag, request) ==
    LET names == db.quilts[quilt]
        n == Len(names)
        res == [i \in 1..n |->
                  GetAxisFromSelection(ax[names[i]], SelectionFor(request, i))]
        box == [d \in 1..4 |-> IF d <= n THEN res[d].segment ELSE <<0, Unbounded>>]
    IN Search(db, quilt, tag, TRUE, <<box>>)

\* A fetch that checks the size after it has queried the patch index, to
\* compare the place of fetch's check with.
FetchCapCheckingLate(cap, db, ax, quilt, tag, request) ==
    IF quilt \notin DOMAIN db.quilts
    THEN [ok |-> FALSE, err |-> "NotFound", patch |-> PatchNew(<<>>),
          searched |-> FALSE, read |-> 0]
    ELSE
    LET names == db.quilts[quilt]
        n == Len(names)
        res == [i \in 1..n |->
                  GetAxisFromSelection(ax[names[i]], SelectionFor(request, i))]
        axes == [i \in 1..n |-> MkAxis(names[i], res[i].labels)]
    IN IF \E i \in 1..n : ~res[i].ok
       THEN [ok |-> FALSE, err |-> "InvalidValue", patch |-> PatchNew(<<>>),
             searched |-> FALSE, read |-> 0]
       ELSE IF n < 1
       THEN [ok |-> FALSE, err |-> "Panic", patch |-> PatchNew(<<>>),
             searched |-> FALSE, read |-> 0]
       ELSE IF Product([i \in 1..n |-> Len(res[i].labels)]) > cap
       THEN [ok |-> FALSE, err |-> "TooLarge", patch |-> PatchNew(<<>>),
             searched |-> TRUE, read |-> 0]
       ELSE With(FetchApply(db, PatchNew(axes), FetchRefs(db, ax, quilt, tag, request)),
                 LAMBDA r : [ok |-> r.ok, err |-> r.err, patch |-> r.patch,
                             searched |-> TRUE, read |-> r.read])

\* fetch with the size check at cap elements: ok, the kind of the error
\* ("none" for Ok), the patch returned, whether the patch index was queried
\* and how many patches were read.  The axes are resolved first; the size
\* check comes before the search, and the target is allocated after it.
FetchCap(cap, db, ax, quilt, tag, request) ==
    IF quilt \notin DOMAIN db.quilts
    THEN [ok |-> FALSE, err |-> "NotFound", patch |-> PatchNew(<<>>),
          searched |-> FALSE, read |-> 0]
    ELSE
    LET names == db.quilts[quilt]
        n == Len(names)
        res == [i \in 1..n |->
                  GetAxisFromSelection(ax[names[i]], SelectionFor(request, i))]
        axes == [i \in 1..n |-> MkAxis(names[i], res[i].labels)]
    IN IF \E i \in 1..n : ~res[i].ok
       THEN [ok |-> FALSE, err |-> "InvalidValue", patch |-> PatchNew(<<>>),
             searched |-> FALSE, read |-> 0]
       ELSE IF n < 1
       THEN [ok |-> FALSE, err |-> "Panic", patch |-> PatchNew(<<>>),
             searched |-> FALSE, read |-> 0]
       ELSE IF Product([i \in 1..n |-> Len(res[i].labels)]) > cap
       THEN [ok |-> FALSE, err |-> "TooLarge", patch |-> PatchNew(<<>>),
             searched |-> FALSE, read |-> 0]
       ELSE With(FetchApply(db, PatchNew(axes), FetchRefs(db, ax, quilt, tag, request)),
                 LAMBDA r : [ok |-> r.ok, err |-> r.err, patch |-> r.patch,
                             searched |-> TRUE, read |-> r.read])

\* fetch: [ok, patch].
Fetch(db, ax, quilt, tag, request) ==
    With(FetchCap(MaxPatchElems, db, ax, quilt, tag, request),
         LAMBDA r : [ok |-> r.ok, patch |-> r.patch])

(***************************************************************************)
(* The write path: the splitter, put_commit and create_commit.             *)
(***************************************************************************)
\* The sequence s[indices[1]], s[indices[2]], ...
Pick(s, indices) == [k \in DOMAIN indices |-> s[indices[k]]]

\* maybe_split's global_locations: for every label of the global axis that
\* the long axis has, its index in the long axis, in global order.
RECURSIVE GlobalLocations(_, _)
GlobalLocations(global, longLabels) ==
    IF global = <<>> THEN <<>>
    ELSE (IF Head(global) \in Range(longLabels)
          THEN <<LastIndexOf(longLabels, Head(global))>> ELSE <<>>)
         \o GlobalLocations(Tail(global), longLabels)

\* A slice that takes the labels at indices but the content of the leading
\* planes of the long axis, to compare maybe_split's sliced_patch with.
SlicePatchLeadingPlanes(original, longIx, indices) ==
    LET axes == [original.axes EXCEPT ![longIx] =
                    MkAxis(@.name, Pick(original.axes[longIx].labels, indices))]
    IN Compact([axes |-> axes,
                dense |-> [ix \in IndexSpace([i \in DOMAIN axes |-> Len(axes[i].labels)]) |->
                             original.dense[ix]]])

\* maybe_split's sliced_patch: the planes of the long axis at indices,
\* compacted.
SlicePatch(original, longIx, indices) ==
    LET axes == [original.axes EXCEPT ![longIx] =
                    MkAxis(@.name, Pick(original.axes[longIx].labels, indices))]
    IN Compact([axes |-> axes,
                dense |-> [ix \in IndexSpace([i \in DOMAIN axes |-> Len(axes[i].labels)]) |->
                             original.dense[[ix EXCEPT ![longIx] = indices[ix[longIx]]]]]])

\* max_by_key(len): the last of the longest axes.
LongestAxis(original) ==
    CHOOSE i \in DOMAIN original.axes :
        /\ \A j \in DOMAIN original.axes :
              Len(original.axes[j].labels) <= Len(original.axes[i].labels)
        /\ \A j \in (i + 1)..Len(original.axes) :
              Len(original.axes[j].labels) < Len(original.axes[i].labels)

\* StorageTransaction::maybe_split with the size cap as a parameter:
\* [ok, patches].  ax gives the global axes.
RECURSIVE MaybeSplitCap(_, _, _)
MaybeSplitCap(cap, ax, original) ==
    IF PatchLen(original) = 0 THEN [ok |-> TRUE, patches |-> <<>>]
    ELSE IF PatchLen(original) <= cap THEN [ok |-> TRUE, patches |-> <<original>>]
    ELSE
    With(LongestAxis(original), LAMBDA longIx :
    With(GlobalLocations(ax[original.axes[longIx].name], original.axes[longIx].labels),
         LAMBDA locations :
      IF Len(locations) < Cardinality(Range(original.axes[longIx].labels))
      THEN [ok |-> FALSE, patches |-> <<>>]
      ELSE
      With(MaybeSplitCap(cap, ax, SlicePatch(original, longIx,
                                             SubSeq(locations, 1, Len(locations) \div 2))),
           LAMBDA left :
        IF ~left.ok THEN left
        ELSE
        With(MaybeSplitCap(cap, ax, SlicePatch(original, longIx,
                                               SubSeq(locations, Len(locations) \div 2 + 1,
                                                      Len(locations)))),
             LAMBDA right :
          IF ~right.ok THEN right
          ELSE [ok |-> TRUE, patches |-> left.patches \o right.patches]))))

\* StorageTransaction::maybe_split.
MaybeSplit(ax, original) == MaybeSplitCap(SplitCap, ax, original)

\* put_patch: the patch is compacted and written to Patch and PatchContent.
PutPatch(db, id, commId, pat, box) ==
    LET compacted == Compact(pat)
    IN [db EXCEPT !.patches = Put(@, id, [comm_id |-> commId,
                                            decompressed_size |-> 4 * PatchLen(compacted),
                                            box |-> box]),
                  !.contents = Put(@, id, Serialize(compacted, "LZ4"))]

\* A del_patch that deletes the content and leaves the row of the index, to
\* compare del_patch's two statements with.
DelPatchContentOnly(db, id) ==
    [db EXCEPT !.contents = Del(@, id)]

\* del_patch.
DelPatch(db, id) ==
    [db EXCEPT !.patches = Del(@, id), !.contents = Del(@, id)]

\* min_by_key(decompressed_size): the first of the smallest refs.
SmallestRef(db, refs) ==
    refs[CHOOSE i \in DOMAIN refs :
            /\ \A j \in DOMAIN refs :
                  db.patches[refs[i]].decompressed_size <= db.patches[refs[j]].decompressed_size
            /\ \A j \in 1..(i - 1) :
                  db.patches[refs[i]].decompressed_size < db.patches[refs[j]].decompressed_size]

\* The request put_commit builds for the friend's visible area.
FriendRequest(friend) == [i \in DOMAIN friend.axes |-> SelLabels(friend.axes[i].labels)]

\* put_commit's first loop: every patch is merged with its friend, if it has
\* one, and the friend is deleted; [ok, db, pending].
RECURSIVE Balance(_, _, _, _, _, _)
Balance(db, ax, quilt, newTag, patches, pending) ==
    IF patches = <<>> THEN [ok |-> TRUE, db |-> db, pending |-> pending]
    ELSE
    With(Search(db, quilt, newTag, FALSE, <<GetBoundingBox(ax, Head(patches))>>), LAMBDA refs :
      IF refs = <<>>
      THEN Balance(db, ax, quilt, newTag, Tail(patches), Append(pending, Head(patches)))
      ELSE
      With(SmallestRef(db, refs), LAMBDA friendId :
        IF ~GetPatchOk(db, friendId) THEN [ok |-> FALSE, db |-> db, pending |-> pending]
        ELSE
        With(Fetch(db, ax, quilt, newTag, FriendRequest(GetPatch(db, friendId))), LAMBDA visible :
          IF ~visible.ok THEN [ok |-> FALSE, db |-> db, pending |-> pending]
          ELSE
          With(DelPatch(db, friendId), LAMBDA db1 :
          With(<<visible.patch, Head(patches)>>, LAMBDA operands :
            IF ~MergeOk(operands) THEN [ok |-> FALSE, db |-> db1, pending |-> pending]
            ELSE
            With(MaybeSplit(ax, Merge(operands)), LAMBDA pieces :
              IF ~pieces.ok THEN [ok |-> FALSE, db |-> db1, pending |-> pending]
              ELSE Balance(db1, ax, quilt, newTag, Tail(patches),
                           pending \o pieces.patches)))))))

\* put_commit's second loop: every pending patch that has elements is put,
\* each under a new id.
RECURSIVE PutPending(_, _, _, _, _)
PutPending(db, ax, commId, pending, ids) ==
    IF pending = <<>> THEN db
    ELSE IF PatchLen(Head(pending)) > 0
    THEN PutPending(PutPatch(db, Head(ids), commId, Head(pending),
                             GetBoundingBox(ax, Head(pending))),
                    ax, commId, Tail(pending), Tail(ids))
    ELSE PutPending(db, ax, commId, Tail(pending), ids)

\* Comm is keyed by comm_id: INSERT INTO Comm fails on an id that is there.
CommKeyTaken(db, commId) == commId \in DOMAIN db.comms

\* An insert that moves parent_tag along with new_tag, to compare put_commit's
\* with.
InsertCommitMovingParent(db, quilt, parentTag, newTag, commId) ==
    [db EXCEPT !.comms = Put(@, commId,
                             IF <<quilt, parentTag>> \in DOMAIN db.tags
                             THEN db.tags[<<quilt, parentTag>>] ELSE NoParent),
               !.tags = Put(Put(@, <<quilt, parentTag>>, commId), <<quilt, newTag>>, commId)]

\* An insert that writes the Tag row first and reads the parent from it
\* afterwards, to compare the order of put_commit's two statements with.
InsertCommitTagFirst(db, quilt, parentTag, newTag, commId) ==
    [db EXCEPT !.comms = Put(@, commId,
                             IF parentTag = newTag THEN commId
                             ELSE IF <<quilt, parentTag>> \in DOMAIN db.tags
                             THEN db.tags[<<quilt, parentTag>>] ELSE NoParent),
               !.tags = Put(@, <<quilt, newTag>>, commId)]

\* put_commit's INSERT INTO Comm and INSERT OR REPLACE INTO Tag.
InsertCommit(db, quilt, parentTag, newTag, commId) ==
    [db EXCEPT !.comms = Put(@, commId,
                             IF <<quilt, parentTag>> \in DOMAIN db.tags
                             THEN db.tags[<<quilt, parentTag>>] ELSE NoParent),
               !.tags = Put(@, <<quilt, newTag>>, commId)]

\* put_commit: [ok, db].  ids are the values gen_id returns, in call order.
PutCommit(db, ax, quilt, parentTag, newTag, patches, ids) ==
    With(Balance(db, ax, quilt, newTag, patches, <<>>), LAMBDA balanced :
      IF ~balanced.ok THEN [ok |-> FALSE, db |-> balanced.db]
      ELSE
      With(PutPending(balanced.db, ax, Head(ids), balanced.pending, Tail(ids)), LAMBDA db2 :
        IF CommKeyTaken(db2, Head(ids)) THEN [ok |-> FALSE, db |-> db2]
        ELSE [ok |-> TRUE, db |-> InsertCommit(db2, quilt, parentTag, newTag, Head(ids))]))

\* create_commit's check: the patch has the quilt's axis names, in any order.
AxesMatch(quiltAxes, patch) ==
    /\ Len(quiltAxes) = Len(patch.axes)
    /\ \A n \in Range(quiltAxes) \cup Range(AxisNamesOf(patch)) :
          Cardinality({i \in DOMAIN quiltAxes : quiltAxes[i] = n})
            = Cardinality({i \in DOMAIN patch.axes : patch.axes[i].name = n})

\* create_commit's inner loop: the axis unioned with every patch's axis of
\* that name.
RECURSIVE UnionWithPatches(_, _, _)
UnionWithPatches(name, labels, patches) ==
    IF patches = <<>> THEN labels
    ELSE LET p == Head(patches)
             other == p.axes[IndexOf(AxisNamesOf(p), name)].labels
         IN UnionWithPatches(name, AxisUnion(labels, other), Tail(patches))

\* create_commit's loop over the quilt's axes: [db, cache].
RECURSIVE ExtendAxes(_, _, _, _)
ExtendAxes(db, cache, names, patches) ==
    IF names = <<>> THEN [db |-> db, cache |-> cache]
    ELSE
    With(GetAxis(db, cache, Head(names)), LAMBDA mine :
    With(CacheAfterGet(db, cache, Head(names)), LAMBDA cache1 :
    With(UnionWithPatches(Head(names), mine, patches), LAMBDA united :
      IF united # mine
      THEN With(UnionAxis(db, cache1, MkAxis(Head(names), united)), LAMBDA u :
             ExtendAxes(u.db, u.cache, Tail(names), patches))
      ELSE ExtendAxes(db, cache1, Tail(names), patches))))

\* create_commit's split loop: [ok, patches].
RECURSIVE SplitAll(_, _)
SplitAll(ax, patches) ==
    IF patches = <<>> THEN [ok |-> TRUE, patches |-> <<>>]
    ELSE With(MaybeSplit(ax, Head(patches)), LAMBDA first :
           IF ~first.ok THEN first
           ELSE With(SplitAll(ax, Tail(patches)), LAMBDA rest :
                  IF ~rest.ok THEN rest
                  ELSE [ok |-> TRUE, patches |-> first.patches \o rest.patches]))

\* The global axes as get_axis returns them.
AxisView(db, cache) == [n \in AxisNameSet |-> GetAxis(db, cache, n)]

\* A create_commit that checks the axis names after it has extended the
\* global axes by the patches that pass the check, to compare create_commit's
\* order of steps with.
CreateCommitCheckingLate(db, cache, quilt, parentTag, newTag, patches, ids) ==
    IF quilt \notin DOMAIN db.quilts
    THEN [ok |-> FALSE, err |-> "NotFound", db |-> db, cache |-> cache]
    ELSE
    With(ExtendAxes(db, cache, db.quilts[quilt],
                    SelectSeq(patches, LAMBDA p : AxesMatch(db.quilts[quilt], p))),
         LAMBDA ext :
      IF \E k \in DOMAIN patches : ~AxesMatch(db.quilts[quilt], patches[k])
      THEN [ok |-> FALSE, err |-> "MisalignedAxes", db |-> ext.db, cache |-> ext.cache]
      ELSE
      With(AxisView(ext.db, ext.cache), LAMBDA ax :
      With(SplitAll(ax, patches), LAMBDA split :
        IF ~split.ok
        THEN [ok |-> FALSE, err |-> "MisalignedAxes", db |-> ext.db, cache |-> ext.cache]
        ELSE With(PutCommit(ext.db, ax, quilt, parentTag, newTag, split.patches, ids),
                  LAMBDA put : [ok |-> put.ok, err |-> IF put.ok THEN "none" ELSE "Storage",
                                db |-> put.db, cache |-> ext.cache]))))

\* create_commit: [ok, err, db, cache].
CreateCommit(db, cache, quilt, parentTag, newTag, patches, ids) ==
    IF quilt \notin DOMAIN db.quilts
    THEN [ok |-> FALSE, err |-> "NotFound", db |-> db, cache |-> cache]
    ELSE IF \E k \in DOMAIN patches : ~AxesMatch(db.quilts[quilt], patches[k])
    THEN [ok |-> FALSE, err |-> "MisalignedAxes", db |-> db, cache |-> cache]
    ELSE
    With(ExtendAxes(db, cache, db.quilts[quilt], patches), LAMBDA ext :
    With(AxisView(ext.db, ext.cache), LAMBDA ax :
    With(SplitAll(ax, patches), LAMBDA split :
      IF ~split.ok
      THEN [ok |-> FALSE, err |-> "MisalignedAxes", db |-> ext.db, cache |-> ext.cache]
      ELSE With(PutCommit(ext.db, ax, quilt, parentTag, newTag, split.patches, ids),
                LAMBDA put : [ok |-> put.ok, err |-> IF put.ok THEN "none" ELSE "Storage",
                              db |-> put.db, cache |-> ext.cache]))))

(***************************************************************************)
(* gen_id (src/src/sqlite.rs): the clock plus a random i16.  The salt is   *)
(* scaled to -SaltSpan..SaltSpan-1.                                        *)
(***************************************************************************)
SaltSpan == 1
Salts == (0 - SaltSpan)..(SaltSpan - 1)

\* The first reading of the clock; no id is NoParent or below.
BaseClock == SaltSpan + 1

\* A tick is a span of time as long as the salt's range: an id drawn after it
\* is larger than every id drawn before it.
ClockStep == 2 * SaltSpan

GenId(clock, salt) == clock + salt

(***************************************************************************)
(* The inputs of the model.                                                *)
(***************************************************************************)
\* The label sequences a..b within 1..MaxLabelX.
XRanges == {[i \in 1..(b - a + 1) |-> a + i - 1] : a \in 1..MaxLabelX, b \in 1..MaxLabelX} \ {<<>>}

\* A patch over the labels xl of "x" and the label 1 of "y", every cell v,
\* with its axes in the quilt's order ("xy") or the other way round ("yx").
MkPatch(order, xl, v) ==
    IF order = "xy"
    THEN [axes |-> <<MkAxis("x", xl), MkAxis("y", <<1>>)>>,
          dense |-> [ix \in IndexSpace(<<Len(xl), 1>>) |-> v]]
    ELSE [axes |-> <<MkAxis("y", <<1>>), MkAxis("x", xl)>>,
          dense |-> [ix \in IndexSpace(<<1, Len(xl)>>) |-> v]]

\* The patch lists handed to create_commit: one patch in the quilt's axis
\* order, one patch over a single x label in the other order, or two patches
\* that cut 1..MaxLabelX in two.
CommitInputs(v) ==
    {<<MkPatch("xy", xl, v)>> : xl \in XRanges}
    \cup {<<MkPatch("yx", <<l>>, v)>> : l \in 2..2}
    \cup {<<MkPatch("xy", [i \in 1..k |-> i], v),
            MkPatch("xy", [i \in 1..(MaxLabelX - k) |-> k + i], v)>> : k \in 1..(MaxLabelX - 1)}

\* The salts one create_commit call draws: one for the commit, then one for
\* each patch it stores, successive patches drawing different ones.
SaltVectors(n) == {s \in [1..n -> Salts] : \A i \in 3..n : s[i] # s[i - 1]}

\* (parent_tag, new_tag) of a create_commit call.
TagPairs == {<<"latest", "latest">>, <<"latest", "dev">>, <<"dev", "dev">>}

\* The requests handed to fetch.
Requests ==
    {<<>>} \cup {<<SelLabelSlice(l, l)>> : l \in 1..MaxLabelX}
           \cup {<<SelLabels(<<l>>)>> : l \in 1..MaxLabelX}

(***************************************************************************)
(* State.                                                                  *)
(***************************************************************************)
VARIABLES
    disk,       \* the database as committed
    work,       \* the database as the open transaction sees it
    cache,      \* axis_cache of the open transaction
    txn,        \* "none" or "open"
    holder,     \* the thread whose transaction holds the connection mutex, 0 if free
    now,        \* the clock
    pc,         \* per thread of the locking specification: where it is in txn()
    attempt,    \* per thread: the loop index i of txn()
    slept,      \* per thread: the milliseconds txn() has slept in this call
    nCommits,   \* create_commit calls made
    nTxns,      \* transactions begun
    last,       \* the latest operation and what it found
    journal,    \* per tag, what was committed on it (as the open transaction sees it)
    journalDisk,\* journal as committed
    begun,      \* the database as the open transaction found it
    prev,       \* how the previous transaction ended
    calc        \* a call of a function of Patch, Axis or the selection resolver

vars == <<disk, work, cache, txn, holder, now, pc, attempt, slept, nCommits, nTxns, last,
          journal, journalDisk, begun, prev, calc>>

Threads == 1..NThreads

NoOp == [op |-> "none", ok |-> TRUE, err |-> "none", parentTag |-> "", newTag |-> "",
         before |-> EmptyDb, unmerged |-> EmptyDb, patches |-> <<>>]

\* What was committed, for comparison with what fetch returns:
\*   tags[t].commits  the patch lists of the commits on t's ancestry, oldest first
\*   tags[t].linear   every one of them was made with parent_tag = new_tag = t
\*   failed           a create_commit call returned an error
\*   ordered          every id gen_id returned was larger than the ids of its
\*                    kind returned before
\*   aligned          every patch committed had its axes in the quilt's order
EmptyJournal ==
    [tags |-> [t \in TagNames |-> [commits |-> <<>>, linear |-> TRUE]],
     failed |-> FALSE, ordered |-> TRUE, aligned |-> TRUE]

\* ids = <<comm_id, patch ids>> as one create_commit call draws them on db.
IdsOrdered(db, ids) ==
    /\ \A c \in DOMAIN db.comms : c < Head(ids)
    /\ \A i \in 2..Len(ids) : \A q \in DOMAIN db.patches : q < ids[i]
    /\ \A i, j \in 2..Len(ids) : i < j => ids[i] < ids[j]

\* No call of a function yet.
NoCalc == [op |-> "none"]

\* The catalog after connect: the schema is there, the tables are empty.
InitDb ==
    /\ disk = EmptyDb
    /\ work = EmptyDb
    /\ cache = <<>>
    /\ txn = "none"
    /\ holder = 0
    /\ now = BaseClock
    /\ pc = [t \in Threads |-> "idle"]
    /\ attempt = [t \in Threads |-> 0]
    /\ slept = [t \in Threads |-> 0]
    /\ nCommits = 0
    /\ nTxns = 0
    /\ last = NoOp
    /\ journal = EmptyJournal
    /\ journalDisk = EmptyJournal
    /\ begun = EmptyDb
    /\ prev = [outcome |-> "none", snap |-> EmptyDb, final |-> EmptyDb]

Init == InitDb /\ calc = NoCalc

lockVars == <<pc, attempt, slept>>

(***************************************************************************)
(* Transactions (src/src/sqlite.rs).                                       *)
(***************************************************************************)
\* A lock that is always granted, to compare try_lock with.
TryLockAlways(h) == TRUE

\* Mutex::try_lock on the connection: Ok iff no guard is alive.
TryLock(h) == h = 0

\* Catalog::begin / txn(): the mutex is free, BEGIN is executed.
Begin ==
    /\ txn = "none" /\ TryLock(holder) /\ nTxns < MaxTxns
    /\ txn' = "open" /\ holder' = 1
    /\ work' = disk /\ cache' = <<>>
    /\ begun' = disk
    /\ journal' = journalDisk
    /\ nTxns' = nTxns + 1
    /\ last' = [NoOp EXCEPT !.op = "begin"]
    /\ UNCHANGED <<disk, now, nCommits, journalDisk, prev, lockVars, calc>>

\* A COMMIT that keeps nothing and a ROLLBACK that keeps everything, to
\* compare the two statements with.
NotCommitted(db, view) == db
NotRolledBack(db, view) == view

\* The database after COMMIT.
Committed(db, view) == view

\* The database after ROLLBACK.
RolledBack(db, view) == db

\* A finish() whose drop rolls back as if the transaction were still open, to
\* compare the ROLLBACK of a finished transaction with.
FinishUndoneByDrop ==
    /\ txn = "open"
    /\ disk' = RolledBack(disk, Committed(disk, work))
    /\ journalDisk' = journal
    /\ prev' = [outcome |-> "committed", snap |-> begun, final |-> work]
    /\ txn' = "none" /\ holder' = 0
    /\ work' = disk' /\ cache' = <<>>
    /\ last' = NoOp
    /\ UNCHANGED <<now, nCommits, nTxns, journal, begun, lockVars, calc>>

\* finish(): COMMIT; then self is dropped, its ROLLBACK finds no transaction
\* and the guard is released.
Finish ==
    /\ txn = "open"
    /\ disk' = RolledBack(Committed(disk, work), Committed(disk, work))
    /\ journalDisk' = journal
    /\ prev' = [outcome |-> "committed", snap |-> begun, final |-> work]
    /\ txn' = "none" /\ holder' = 0
    /\ work' = disk' /\ cache' = <<>>
    /\ last' = NoOp
    /\ UNCHANGED <<now, nCommits, nTxns, journal, begun, lockVars, calc>>

\* rollback(): ROLLBACK; then self is dropped, its ROLLBACK finds no
\* transaction and the guard is released.
Rollback ==
    /\ txn = "open"
    /\ disk' = RolledBack(RolledBack(disk, work), RolledBack(disk, work))
    /\ prev' = [outcome |-> "rolledback", snap |-> begun, final |-> work]
    /\ txn' = "none" /\ holder' = 0
    /\ work' = disk' /\ cache' = <<>>
    /\ journal' = journalDisk
    /\ last' = NoOp
    /\ UNCHANGED <<now, nCommits, nTxns, journalDisk, begun, lockVars, calc>>

\* Drop for SQLiteTransaction without finish(): ROLLBACK.
DropTxn ==
    /\ txn = "open"
    /\ disk' = RolledBack(disk, work)
    /\ prev' = [outcome |-> "dropped", snap |-> begun, final |-> work]
    /\ txn' = "none" /\ holder' = 0
    /\ work' = disk' /\ cache' = <<>>
    /\ journal' = journalDisk
    /\ last' = NoOp
    /\ UNCHANGED <<now, nCommits, nTxns, journalDisk, begun, lockVars, calc>>

\* The clock advances.
Tick ==
    /\ txn = "open"
    /\ now < BaseClock + MaxTicks * ClockStep
    /\ now' = now + ClockStep
    /\ UNCHANGED <<disk, work, cache, txn, holder, nCommits, nTxns, last, journal,
                   journalDisk, begun, prev, lockVars, calc>>

(***************************************************************************)
(* Operations of an open transaction.                                      *)
(***************************************************************************)
\* The quilt table has a row of this name: quilt_name is the table's key.
QuiltKeyTaken(db, name) == name \in DOMAIN db.quilts

\* A create_quilt that replaces the row of the name, to compare INSERT OR
\* IGNORE with.
CreateQuiltReplacing(db, name, axes) ==
    [db EXCEPT !.quilts = Put(Del(@, name), name, axes)]

\* create_quilt: INSERT OR IGNORE INTO quilt.
CreateQuilt(db, name, axes) ==
    IF QuiltKeyTaken(db, name) THEN db
    ELSE [db EXCEPT !.quilts = Put(@, name, axes)]

\* get_quilt_details: the row of the name, NotFound if there is none.
GetQuiltDetails(db, name) ==
    IF name \in DOMAIN db.quilts
    THEN [err |-> "none", axes |-> db.quilts[name]]
    ELSE [err |-> "NotFound", axes |-> <<>>]

\* create_quilt(name, axes): returns whether a row was inserted.
CreateQuiltOp(name, axes) ==
    /\ txn = "open"
    /\ work' = CreateQuilt(work, name, axes)
    /\ last' = [op |-> "create_quilt", ok |-> work' # work, err |-> "none",
                parentTag |-> "", newTag |-> "", before |-> work, unmerged |-> EmptyDb,
                patches |-> <<>>, axes |-> axes]
    /\ UNCHANGED <<disk, cache, txn, holder, now, nCommits, nTxns, journal,
                   journalDisk, begun, prev, lockVars, calc>>

UnionAxisOp(axis) ==
    /\ txn = "open"
    /\ LET u == UnionAxis(work, cache, axis)
       IN /\ work' = u.db
          /\ cache' = u.cache
          /\ last' = NoOp
    /\ UNCHANGED <<disk, txn, holder, now, nCommits, nTxns, journal,
                   journalDisk, begun, prev, lockVars, calc>>

\* fetch reads every axis of the quilt through get_axis.
RECURSIVE CacheAfterGets(_, _, _)
CacheAfterGets(db, c, names) ==
    IF names = <<>> THEN c
    ELSE CacheAfterGets(db, CacheAfterGet(db, c, Head(names)), Tail(names))

FetchOp(quilt, tag, request) ==
    /\ txn = "open"
    /\ quilt \in DOMAIN work.quilts
    /\ cache' = CacheAfterGets(work, cache, work.quilts[quilt])
    /\ last' = NoOp
    /\ UNCHANGED <<disk, work, txn, holder, now, nCommits, nTxns, journal,
                   journalDisk, begun, prev, lockVars, calc>>

\* put_commit had every patch been stored as it came: no friend is looked
\* for, fetched or deleted.
PutCommitUnmerged(db, ax, quilt, parentTag, newTag, patches, ids) ==
    InsertCommit(PutPending(db, ax, Head(ids), patches, Tail(ids)),
                 quilt, parentTag, newTag, Head(ids))

\* create_commit with the state it would have left without friend merging.
Unmerged(db, c, quilt, parentTag, newTag, patches, ids) ==
    With(ExtendAxes(db, c, db.quilts[quilt], patches), LAMBDA ext :
    With(AxisView(ext.db, ext.cache), LAMBDA ax :
      PutCommitUnmerged(ext.db, ax, quilt, parentTag, newTag,
                        SplitAll(ax, patches).patches, ids)))

\* create_commit(quilt, parent_tag, new_tag, patches), the call being one of
\* the first `calls` of the run.
CommitOpUpTo(calls, quilt, parentTag, newTag, patches, ids) ==
    /\ txn = "open"
    /\ nCommits < calls
    /\ \E r \in {CreateCommit(work, cache, quilt, parentTag, newTag, patches, ids)} :
          /\ work' = r.db
          /\ cache' = r.cache
          /\ last' = [op |-> "create_commit", ok |-> r.ok, err |-> r.err,
                      parentTag |-> parentTag, newTag |-> newTag,
                      before |-> work,
                      unmerged |-> IF r.ok
                                   THEN Unmerged(work, cache, quilt, parentTag, newTag,
                                                 patches, ids)
                                   ELSE EmptyDb,
                      patches |-> patches, at |-> now]
          /\ journal' =
                IF r.ok
                THEN [journal EXCEPT
                        !.tags[newTag] =
                           [commits |-> Append(journal.tags[parentTag].commits, patches),
                            linear |-> journal.tags[parentTag].linear /\ parentTag = newTag],
                        !.ordered = @ /\ IdsOrdered(work, ids),
                        !.aligned = @ /\ \A k \in DOMAIN patches :
                                            AxisNamesOf(patches[k]) = work.quilts[quilt]]
                ELSE [journal EXCEPT !.failed = TRUE]
    /\ nCommits' = nCommits + 1
    /\ UNCHANGED <<disk, txn, holder, now, nTxns, journalDisk, begun, prev, lockVars, calc>>

CommitOp(quilt, parentTag, newTag, patches, ids) ==
    CommitOpUpTo(MaxCommits, quilt, parentTag, newTag, patches, ids)

(***************************************************************************)
(* txn() as several threads run it (src/src/sqlite.rs): try_lock up to     *)
(* LockAttempts times, sleeping between the attempts.                      *)
(***************************************************************************)
TxnCall(t) ==
    /\ pc[t] = "idle"
    /\ pc' = [pc EXCEPT ![t] = "trying"]
    /\ attempt' = [attempt EXCEPT ![t] = 0]
    /\ slept' = [slept EXCEPT ![t] = 0]
    /\ UNCHANGED <<disk, work, cache, txn, holder, now, nCommits, nTxns, last, journal,
                   journalDisk, begun, prev, calc>>

\* One turn of the loop: try_lock succeeds and BEGIN is executed.
TxnLocked(t) ==
    /\ pc[t] = "trying"
    /\ attempt[t] < LockAttempts
    /\ TryLock(holder)
    /\ holder' = t
    /\ pc' = [pc EXCEPT ![t] = "open"]
    /\ UNCHANGED <<disk, work, cache, txn, now, attempt, slept, nCommits, nTxns, last,
                   journal, journalDisk, begun, prev, calc>>

\* A turn that sleeps without moving to the next attempt, to compare the
\* bounded loop with.
TxnSleepSameAttempt(t) ==
    /\ pc[t] = "trying"
    /\ attempt[t] < LockAttempts
    /\ ~TryLock(holder)
    /\ attempt' = [attempt EXCEPT ![t] = IF @ = 0 THEN 1 ELSE @]
    /\ slept' = [slept EXCEPT ![t] = 2 ^ attempt'[t] - 1]
    /\ UNCHANGED <<disk, work, cache, txn, holder, now, pc, nCommits, nTxns, last, journal,
                   journalDisk, begun, prev, calc>>

\* One turn of the loop: try_lock fails, the thread sleeps 1 << i milliseconds
\* and tries again.
TxnSleep(t) ==
    /\ pc[t] = "trying"
    /\ attempt[t] < LockAttempts
    /\ ~TryLock(holder)
    /\ attempt' = [attempt EXCEPT ![t] = @ + 1]
    /\ slept' = [slept EXCEPT ![t] = @ + 2 ^ attempt[t]]
    /\ UNCHANGED <<disk, work, cache, txn, holder, now, pc, nCommits, nTxns, last, journal,
                   journalDisk, begun, prev, calc>>

\* The loop is over: Err(RuntimeError).
TxnGiveUp(t) ==
    /\ pc[t] = "trying"
    /\ attempt[t] = LockAttempts
    /\ pc' = [pc EXCEPT ![t] = "idle"]
    /\ UNCHANGED <<disk, work, cache, txn, holder, now, attempt, slept, nCommits, nTxns,
                   last, journal, journalDisk, begun, prev, calc>>

\* finish(), rollback() or drop: the guard is released.
TxnEnd(t) ==
    /\ pc[t] = "open"
    /\ holder' = 0
    /\ pc' = [pc EXCEPT ![t] = "idle"]
    /\ UNCHANGED <<disk, work, cache, txn, now, attempt, slept, nCommits, nTxns, last,
                   journal, journalDisk, begun, prev, calc>>

(***************************************************************************)
(* Calls of the functions of Patch (src/src/patch.rs) on two patches.      *)
(***************************************************************************)
\* The label sequences of an axis of an operand: none, one or two of the
\* labels 1..MaxLabelX, in either order.
LabelSeqs ==
    {<<>>} \cup {<<l>> : l \in 1..MaxLabelX}
           \cup {lk \in [1..2 -> 1..MaxLabelX] : lk[1] # lk[2]}

\* The label sequences of the "y" axis of an operand.
YSeqs == {<<1>>, <<2, 1>>}

\* The patches over "x" and "y" whose cells are NaN or v, with the axes in the
\* order (x, y) or (y, x).
PatchesOf(v) ==
    UNION {{[axes |-> <<MkAxis("x", xl), MkAxis("y", yl)>>, dense |-> d] :
               d \in [IndexSpace(<<Len(xl), Len(yl)>>) -> {NaN, v}]}
           \cup {[axes |-> <<MkAxis("y", yl), MkAxis("x", xl)>>, dense |-> d] :
               d \in [IndexSpace(<<Len(yl), Len(xl)>>) -> {NaN, v}]} :
           xl \in LabelSeqs, yl \in YSeqs}

\* Two operands are drawn; nothing has been called.
InitPatch ==
    /\ InitDb
    /\ \E t \in PatchesOf(1), s \in PatchesOf(2) : calc = [op |-> "none", t |-> t, s |-> s]

dbVars == <<disk, work, cache, txn, holder, now, pc, attempt, slept, nCommits, nTxns, last,
            journal, journalDisk, begun, prev>>

\* t.apply(s): out is t after the call, ok says whether it returned Ok.
ApplyStep ==
    /\ calc.op = "none"
    /\ calc' = [op |-> "apply", t |-> calc.t, s |-> calc.s,
                ok |-> ApplyOk(calc.t, calc.s),
                out |-> IF ApplyOk(calc.t, calc.s) THEN Apply(calc.t, calc.s) ELSE calc.t]
    /\ UNCHANGED dbVars

\* A third operand with the axis names of t in t's order: the value 3 at the
\* label 3 of "x", no value at its label 1.
Third(t) ==
    [axes |-> [i \in DOMAIN t.axes |->
                 MkAxis(t.axes[i].name, IF t.axes[i].name = "x" THEN <<3, 1>> ELSE <<1>>)],
     dense |-> [ix \in IndexSpace([i \in DOMAIN t.axes |->
                                      IF t.axes[i].name = "x" THEN 2 ELSE 1]) |->
                  IF ix[IndexOf(AxisNamesOf(t), "x")] = 1 THEN 3 ELSE NaN]]

\* Patch::merge(&[t, s]) or Patch::merge(&[t, s, u]): out is the patch returned,
\* ok says whether it returned Ok.
MergeStep ==
    /\ calc.op = "none"
    /\ \E operands \in {<<calc.t, calc.s>>, <<calc.t, calc.s, Third(calc.t)>>} :
          calc' = [op |-> "merge", t |-> calc.t, s |-> calc.s, operands |-> operands,
                   ok |-> MergeOk(operands),
                   out |-> IF MergeOk(operands) THEN Merge(operands) ELSE calc.t]
    /\ UNCHANGED dbVars

\* p.compact() and p.compact().compact(), p being the merge of the two
\* operands where they can be merged and the first operand where not.
CompactStep ==
    /\ calc.op = "none"
    /\ \E p \in {IF MergeOk(<<calc.t, calc.s>>) THEN Merge(<<calc.t, calc.s>>) ELSE calc.t} :
          calc' = [op |-> "compact", t |-> calc.t, s |-> calc.s, p |-> p,
                   out |-> Compact(p), again |-> Compact(Compact(p))]
    /\ UNCHANGED dbVars

(***************************************************************************)
(* Calls of the splitter (src/src/catalog.rs, maybe_split) with a small    *)
(* size cap.                                                               *)
(***************************************************************************)
\* The label sequences of the "x" axis of a patch handed to the splitter: up
\* to three distinct labels in any order.
SplitXSeqs == LabelSeqs \cup {s \in [1..3 -> 1..MaxLabelX] : CheckDistinct(s)}

\* The value the cell at the labels (x, y) holds when it holds one; no two
\* cells hold the same.
SplitValue(x, y) == 10 * x + y

\* The patches handed to the splitter: every cell is NaN or its own value,
\* the axes are in the order (x, y) or (y, x).
SplitPatches ==
    UNION {{[axes |-> <<MkAxis("x", xl), MkAxis("y", yl)>>,
             dense |-> [ix \in IndexSpace(<<Len(xl), Len(yl)>>) |->
                          IF ix \in full THEN SplitValue(xl[ix[1]], yl[ix[2]]) ELSE NaN]] :
               full \in SUBSET IndexSpace(<<Len(xl), Len(yl)>>)}
           \cup {[axes |-> <<MkAxis("y", yl), MkAxis("x", xl)>>,
                  dense |-> [ix \in IndexSpace(<<Len(yl), Len(xl)>>) |->
                               IF ix \in full THEN SplitValue(xl[ix[2]], yl[ix[1]]) ELSE NaN]] :
               full \in SUBSET IndexSpace(<<Len(yl), Len(xl)>>)} :
           xl \in SplitXSeqs, yl \in YSeqs}

\* The global axes the splitter reads: "x" in storage order 1, 2, .. or the
\* reverse, or holding the label 2 only; "y" in either order.
SplitGlobals ==
    {[x |-> gx, y |-> gy] :
        gx \in {[i \in 1..MaxLabelX |-> i], [i \in 1..MaxLabelX |-> MaxLabelX + 1 - i], <<2>>},
        gy \in {<<1, 2>>, <<2, 1>>}}

\* A patch and the global axes are drawn; nothing has been called.
InitSplit ==
    /\ InitDb
    /\ \E t \in SplitPatches, ax \in SplitGlobals : calc = [op |-> "none", t |-> t, ax |-> ax]

\* self.maybe_split(t): patches are the leaves returned, ok says whether it
\* returned Ok.
SplitStep ==
    /\ calc.op = "none"
    /\ \E r \in {MaybeSplitCap(SmallCap, calc.ax, calc.t)} :
          calc' = [op |-> "split", t |-> calc.t, ax |-> calc.ax,
                   ok |-> r.ok, patches |-> r.patches]
    /\ UNCHANGED dbVars

(***************************************************************************)
(* Calls of Axis (src/src/axis.rs) and of union_axis by a client that      *)
(* builds an axis "x", unions axes into it and hands it to union_axis, as  *)
(* test_create_axis does.                                                  *)
(***************************************************************************)
\* The label vectors handed to Axis::new: up to three labels, repeated or not.
RawSeqs == UNION {[1..n -> 1..MaxLabelX] : n \in 0..3}

\* A label vector is drawn; no axis has been built.
InitAxis ==
    /\ InitDb
    /\ \E raw \in RawSeqs : calc = [op |-> "none", raw |-> raw]

\* Axis::new("x", raw): ok says whether it returned Ok, a is the client's axis.
AxisNewStep ==
    /\ calc.op = "none"
    /\ calc' = [op |-> "new", raw |-> calc.raw, ok |-> CheckDistinct(calc.raw),
                a |-> IF CheckDistinct(calc.raw) THEN calc.raw ELSE <<>>]
    /\ UNCHANGED dbVars

\* a.union(&b), b an axis built by Axis::new: before is a before the call,
\* ret the value returned, rep says that the call before was a.union(&b) too.
AxisUnionStep ==
    /\ calc.op \in {"new", "union", "union_axis"} /\ calc.ok
    /\ \E b \in LabelSeqs :
          calc' = [op |-> "union", ok |-> TRUE,
                   a |-> AxisUnion(calc.a, b), before |-> calc.a, other |-> b,
                   ret |-> AxisUnionMutated(calc.a, b),
                   rep |-> calc.op = "union" /\ calc.other = b]
    /\ UNCHANGED dbVars

\* txn.union_axis(&a): before is the global axis before the call, ret the
\* value returned, rep says that the call before was union_axis(&a) in this
\* transaction too.
UnionAxisStep ==
    /\ txn = "open"
    /\ calc.op \in {"new", "union", "union_axis"} /\ calc.ok
    /\ \E u \in {UnionAxis(work, cache, MkAxis("x", calc.a))} :
          /\ work' = u.db
          /\ cache' = u.cache
          /\ calc' = [op |-> "union_axis", ok |-> TRUE, a |-> calc.a,
                      before |-> GetAxis(work, cache, "x"), other |-> calc.a,
                      ret |-> u.ret, txnNo |-> nTxns,
                      rep |-> calc.op = "union_axis" /\ calc.txnNo = nTxns,
                      stored |-> work.axes["x"], known |-> "x" \in work.axisNames]
    /\ last' = NoOp
    /\ UNCHANGED <<disk, txn, holder, now, nCommits, nTxns, journal,
                   journalDisk, begun, prev, lockVars>>

(***************************************************************************)
(* Calls of the selection resolver (src/src/catalog.rs,                    *)
(* get_axis_from_selection) on one global axis.                            *)
(***************************************************************************)
\* The global axis the resolver reads: up to three distinct labels in any
\* order.
GlobalSeqs == {s \in RawSeqs : CheckDistinct(s)}

\* The selections handed to the resolver.
Selections ==
    {SelAll}
    \cup {SelLabels(L) : L \in RawSeqs}
    \cup {SelLabelSlice(lo, hi) : lo \in 1..MaxLabelX, hi \in 1..MaxLabelX}
    \cup {SelStorageSlice(s, e) : s \in 0..2, e \in 0..2}

\* A global axis and a selection are drawn; nothing has been called.
InitSel ==
    /\ InitDb
    /\ \E lab \in GlobalSeqs, sel \in Selections :
          calc = [op |-> "none", lab |-> lab, sel |-> sel]

\* self.get_axis_from_selection(name, sel): ok says whether it returned Ok,
\* labels and segment are the axis and the segment returned.
ResolveStep ==
    /\ calc.op = "none"
    /\ \E r \in {GetAxisFromSelection(calc.lab, calc.sel)} :
          calc' = [op |-> "resolve", lab |-> calc.lab, sel |-> calc.sel,
                   ok |-> r.ok, labels |-> r.labels, segment |-> r.segment]
    /\ UNCHANGED dbVars

(***************************************************************************)
(* Calls of search (src/src/sqlite.rs) on the database of an open          *)
(* transaction.                                                            *)
(***************************************************************************)
\* A bounding box as search's caller hands it over: a range of storage
\* indices on the first dimension, the other dimensions open.
SearchBox(lo, hi) == [d \in 1..4 |-> IF d = 1 THEN <<lo, hi>> ELSE <<0, Unbounded>>]

\* The box lists handed to search: none, one box, or two boxes apart.
SearchBoxLists ==
    {<<>>, <<SearchBox(0, 0), SearchBox(MaxLabelX - 1, MaxLabelX - 1)>>}
    \cup {<<SearchBox(lo, hi)>> : lo \in 0..1, hi \in 1..2}

\* self.search(quilt, tag, deep, boxes): refs are the patch ids returned.
SearchStep ==
    /\ txn = "open"
    /\ calc.op = "none"
    /\ \E tag \in TagNames, deep \in BOOLEAN, boxes \in SearchBoxLists :
          calc' = [op |-> "search", tag |-> tag, deep |-> deep, boxes |-> boxes,
                   refs |-> Search(work, "q", tag, deep, boxes)]
    /\ UNCHANGED dbVars

(***************************************************************************)
(* Calls of fetch (src/src/catalog.rs) on the database of an open          *)
(* transaction.                                                            *)
(***************************************************************************)
\* The requests handed to fetch: up to three selections, one more than the
\* quilt has axes, each All or the labels 2, 1.
FetchRequests == UNION {[1..n -> {SelAll, SelLabels(<<2, 1>>)}] : n \in 0..3}

\* self.fetch("q", "latest", request) with the size check at
\* SmallFetchElems: ok says whether it returned Ok, err the kind of the
\* error, patch is the patch returned, searched whether the patch index was
\* queried and read how many patches were read.
FetchStep ==
    /\ txn = "open"
    /\ calc.op = "none"
    /\ \E request \in FetchRequests :
         \E r \in {FetchCap(SmallFetchElems, work, AxisView(work, cache), "q", "latest",
                             request)} :
          calc' = [op |-> "fetch", request |-> request, ok |-> r.ok, err |-> r.err,
                   patch |-> r.patch, searched |-> r.searched, read |-> r.read]
    /\ UNCHANGED dbVars

(***************************************************************************)
(* Commits of patches whose axes are not the quilt's.                      *)
(***************************************************************************)
\* Patch lists with a patch that has only the axis x, or the axes x and z;
\* in the second list a patch of the quilt's axes with the label 3 comes
\* first.
MisnamedInputs(v) ==
    {<<[axes |-> <<MkAxis("x", <<l>>)>>, dense |-> [ix \in IndexSpace(<<1>>) |-> v]]>> :
        l \in 1..2}
    \cup {<<MkPatch("xy", <<MaxLabelX>>, v),
            [axes |-> <<MkAxis("x", <<1>>), MkAxis("z", <<1>>)>>,
             dense |-> [ix \in IndexSpace(<<1, 1>>) |-> v]]>>}

(***************************************************************************)
(* Axis::get_block (src/src/axis.rs) on words of WordBits bits.            *)
(***************************************************************************)
\* Bit k of the word n.
Bit(n, k) == (n \div 2 ^ k) % 2

\* The word whose bit k is bit[k], for k below n.
RECURSIVE BitsValue(_, _)
BitsValue(bit, n) ==
    IF n = 0 THEN 0 ELSE BitsValue(bit, n - 1) + bit[n - 1] * 2 ^ (n - 1)

\* A count that gives half of the leading zeros, to compare leading_zeros
\* with.
LeadingZerosLessOne(n) ==
    IF n = 0 THEN WordBits
    ELSE (CHOOSE z \in 0..(WordBits - 1) :
            Bit(n, WordBits - 1 - z) = 1
            /\ \A k \in (WordBits - z)..(WordBits - 1) : Bit(n, k) = 0) \div 2

\* n.leading_zeros(): the number of zero bits above the highest one bit.
LeadingZeros(n) ==
    IF n = 0 THEN WordBits
    ELSE CHOOSE z \in 0..(WordBits - 1) :
            Bit(n, WordBits - 1 - z) = 1
            /\ \A k \in (WordBits - z)..(WordBits - 1) : Bit(n, k) = 0

\* get_block(start, end_inclusive): <<S, E>>.  The prefix is the bits above
\* the highest bit where the two differ; the mask is all ones shifted right
\* by its length.
GetBlock(start, end) ==
    IF start = end THEN <<start, start>>
    ELSE LET xor == BitsValue([k \in 0..(WordBits - 1) |->
                                 (Bit(start, k) + Bit(end, k)) % 2], WordBits)
             prefix_mask == (2 ^ WordBits - 1) \div 2 ^ LeadingZeros(xor)
         IN  <<BitsValue([k \in 0..(WordBits - 1) |->
                            Bit(start, k) * (1 - Bit(prefix_mask, k))], WordBits),
               BitsValue([k \in 0..(WordBits - 1) |->
                            IF Bit(start, k) = 1 \/ Bit(prefix_mask, k) = 1 THEN 1 ELSE 0],
                         WordBits)>>

\* Two indices are drawn; nothing has been called.
InitBlock ==
    /\ InitDb
    /\ \E start, end \in 0..(2 ^ WordBits - 1) :
          calc = [op |-> "none", start |-> start, end |-> end]

\* Axis::get_block(start, end).
GetBlockStep ==
    /\ calc.op = "none"
    /\ calc' = [op |-> "get_block", start |-> calc.start, end |-> calc.end,
                block |-> GetBlock(calc.start, calc.end)]
    /\ UNCHANGED dbVars

(***************************************************************************)
(* Calls of Patch::apply and Patch::merge (src/src/patch.rs) on operands   *)
(* whose axes need not agree.                                              *)
(***************************************************************************)
\* A patch of the given axes with v in every cell.
FullPatch(axes, v) ==
    [axes |-> axes,
     dense |-> [ix \in IndexSpace([i \in DOMAIN axes |-> Len(axes[i].labels)]) |-> v]]

\* The operands: two patches over x and y, one of them with its labels the
\* other way round, one over x and y with other labels, one over y and x,
\* one over x alone and one over x and z.
OperandPool ==
    {FullPatch(<<MkAxis("x", <<1, 2>>), MkAxis("y", <<1>>)>>, 1),
     FullPatch(<<MkAxis("x", <<2, 1>>), MkAxis("y", <<1>>)>>, 2),
     FullPatch(<<MkAxis("x", <<2, 3>>), MkAxis("y", <<2>>)>>, 3),
     FullPatch(<<MkAxis("y", <<1>>), MkAxis("x", <<1>>)>>, 4),
     FullPatch(<<MkAxis("x", <<1>>)>>, 5),
     FullPatch(<<MkAxis("x", <<1>>), MkAxis("z", <<1>>)>>, 6)}

\* A list of up to three operands is drawn; nothing has been called.
InitOperands ==
    /\ InitDb
    /\ \E operands \in UNION {[1..n -> OperandPool] : n \in 0..3} :
          calc = [op |-> "none", operands |-> operands]

\* operands[1].apply(operands[2]): out is the target after the call.
ApplyCallStep ==
    /\ calc.op = "none"
    /\ Len(calc.operands) >= 2
    /\ \E t \in {calc.operands[1]}, s \in {calc.operands[2]} :
          calc' = [op |-> "apply", t |-> t, s |-> s,
                   ok |-> ApplyOk(t, s), err |-> ApplyErr(t, s),
                   out |-> IF ApplyOk(t, s) THEN Apply(t, s) ELSE t]
    /\ UNCHANGED dbVars

\* Patch::merge(operands) with Patch::new capped at SmallPatchElems: out is
\* the patch returned, none for an Err.
MergeCallStep ==
    /\ calc.op = "none"
    /\ \E err \in {MergeErrCap(SmallPatchElems, calc.operands)} :
          calc' = [op |-> "merge", operands |-> calc.operands,
                   ok |-> err = "none", err |-> err,
                   out |-> IF err = "none" THEN <<Merge(calc.operands)>> ELSE <<>>]
    /\ UNCHANGED dbVars

(***************************************************************************)
(* Calls of Patch::new (src/src/patch.rs) on drawn axes and content.       *)
(***************************************************************************)
\* Patch::new(axes, content) allocating at most cap elements.  content is
\* <<>> for None and <<shape>> for Some(dense) with dense.shape() = shape.
\* The result: the kind of the error ("none" for Ok, "Panic" for the unwrap
\* of into_shape), the axes of the patch and the four dimensions of its
\* dense array.
PatchNewCap(cap, axes, content) ==
    IF axes = <<>>
    THEN [err |-> "MisalignedAxes", axes |-> <<>>, dims |-> <<>>]
    ELSE IF content = <<>>
    THEN With([i \in DOMAIN axes |-> Len(axes[i].labels)], LAMBDA dims :
           IF Product(dims) > cap
           THEN [err |-> "TooLarge", axes |-> <<>>, dims |-> <<>>]
           ELSE [err |-> "none", axes |-> axes,
                 dims |-> [d \in 1..4 |-> IF d <= Len(dims) THEN dims[d] ELSE 1]])
    ELSE With(content[1], LAMBDA shape :
           IF Len(axes) # Len(shape)
           THEN [err |-> "InvalidValue", axes |-> <<>>, dims |-> <<>>]
           ELSE IF \E i \in DOMAIN axes : Len(axes[i].labels) # shape[i]
           THEN [err |-> "InvalidValue", axes |-> <<>>, dims |-> <<>>]
           ELSE With([d \in 1..4 |-> IF d <= Len(shape) THEN shape[d] ELSE 1], LAMBDA dims :
                  IF Product(dims) # Product(shape)
                  THEN [err |-> "Panic", axes |-> <<>>, dims |-> <<>>]
                  ELSE [err |-> "none", axes |-> axes, dims |-> dims]))

\* The names of the axes drawn for Patch::new.
NewAxisNames == <<"x", "y", "z", "w", "v">>

\* The shapes drawn: up to five dimensions of one or two.
NewShapes == UNION {[1..n -> 1..2] : n \in 0..Len(NewAxisNames)}

\* Axes of a shape and a content (none, or a dense array of a shape) are
\* drawn; nothing has been called.
InitNew ==
    /\ InitDb
    /\ \E lens \in NewShapes, content \in {<<>>} \cup {<<s>> : s \in NewShapes} :
          calc = [op |-> "none",
                  axes |-> [i \in DOMAIN lens |->
                              MkAxis(NewAxisNames[i], [k \in 1..lens[i] |-> k])],
                  content |-> content]

\* Patch::new(axes, content) with the cap at SmallPatchElems.
PatchNewStep ==
    /\ calc.op = "none"
    /\ calc' = [op |-> "new", axes |-> calc.axes, content |-> calc.content,
                out |-> PatchNewCap(SmallPatchElems, calc.axes, calc.content)]
    /\ UNCHANGED dbVars

(***************************************************************************)
(* Calls of Patch::deserialize_from (src/src/patch.rs) on drawn streams.   *)
(***************************************************************************)
\* The variants of PatchCompressionType.
CompressionTypes == {"Off", "Brotli", "LZ4"}

\* Patch::deserialize_from: the tag is decoded, which fails on a compression
\* that is no variant of PatchCompressionType; the payload is then decoded by
\* the tag's compression type.  err is the kind of the error ("none" for
\* Ok), out the patch returned, none for an Err.
DeserializeFrom(bytes) ==
    IF bytes.compression \notin CompressionTypes
    THEN [err |-> "SerializationError", out |-> <<>>]
    ELSE [err |-> "none", out |-> <<Deserialize(bytes)>>]

\* A stream is drawn: a tag with the magic and the version of the format or
\* others, a compression type or an unknown one, and an encoded patch.
InitCodec ==
    /\ InitDb
    /\ \E magic \in {Magic, Magic + 1}, version \in {FormatVersion, FormatVersion + 1},
          compression \in CompressionTypes \cup {"Unknown"}, p \in OperandPool :
          calc = [op |-> "none",
                  bytes |-> [magic |-> magic, version |-> version,
                             compression |-> compression, payload |-> p]]

\* Patch::deserialize_from(bytes).
DeserializeStep ==
    /\ calc.op = "none"
    /\ \E r \in {DeserializeFrom(calc.bytes)} :
          calc' = [op |-> "deserialize", bytes |-> calc.bytes, err |-> r.err, out |-> r.out]
    /\ UNCHANGED dbVars

(***************************************************************************)
(* Specifications.                                                         *)
(***************************************************************************)
\* One transaction writing and reading a quilt.
Next ==
    \/ Begin
    \/ Tick
    \/ CreateQuiltOp("q", <<"x", "y">>)
    \/ UnionAxisOp(MkAxis("y", <<1>>))
    \/ \E tag \in TagNames, request \in Requests : FetchOp("q", tag, request)
    \/ \E v \in {nCommits + 1} : \E patches \in CommitInputs(v) :
         \E salts \in SaltVectors(1 + Len(patches)) :
           CommitOp("q", "latest", "latest", patches,
                    [i \in 1..(1 + Len(patches)) |-> GenId(now, salts[i])])

Spec == Init /\ [][Next]_vars

\* Transactions one after the other, committing single patches on two tags.
TxnInputs(v) == {<<MkPatch("xy", <<l>>, v)>> : l \in 1..2}

NextTxn ==
    \/ Begin
    \/ Finish
    \/ Rollback
    \/ DropTxn
    \/ CreateQuiltOp("q", <<"x", "y">>)
    \/ \E tp \in TagPairs : \E v \in {nCommits + 1} : \E patches \in TxnInputs(v) :
         \E salts \in SaltVectors(1 + Len(patches)) :
           CommitOp("q", tp[1], tp[2], patches,
                    [i \in 1..(1 + Len(patches)) |-> GenId(now, salts[i])])

SpecTxn == Init /\ [][NextTxn]_vars

\* Threads contending for the connection.
NextLock ==
    \E t \in Threads :
        \/ TxnCall(t)
        \/ TxnLocked(t)
        \/ TxnSleep(t)
        \/ TxnGiveUp(t)
        \/ TxnEnd(t)

SpecLock == Init /\ [][NextLock]_vars

\* The functions of Patch called on two patches.
NextPatch ==
    \/ ApplyStep
    \/ MergeStep
    \/ CompactStep

SpecPatch == InitPatch /\ [][NextPatch]_vars

\* One call of the splitter.
NextSplit == SplitStep

SpecSplit == InitSplit /\ [][NextSplit]_vars

\* A client building and unioning an axis and handing it to union_axis, in
\* transactions one after the other.
NextAxis ==
    \/ AxisNewStep
    \/ AxisUnionStep
    \/ UnionAxisStep
    \/ Begin
    \/ Finish
    \/ Rollback

SpecAxis == InitAxis /\ [][NextAxis]_vars

\* Transactions one after the other that grow the global axes: union_axis
\* with an axis over "x", create_commit of a single patch, fetch.
GrowAxes == {MkAxis("x", <<2>>), MkAxis("x", <<3, 1>>)}

NextGrow ==
    \/ Begin
    \/ Finish
    \/ Rollback
    \/ CreateQuiltOp("q", <<"x", "y">>)
    \/ \E axis \in GrowAxes : UnionAxisOp(axis)
    \/ \E request \in Requests : FetchOp("q", "latest", request)
    \/ \E v \in {nCommits + 1} : \E patches \in TxnInputs(v) :
         \E salts \in SaltVectors(1 + Len(patches)) :
           CommitOp("q", "latest", "latest", patches,
                    [i \in 1..(1 + Len(patches)) |-> GenId(now, salts[i])])

SpecGrow == Init /\ [][NextGrow]_vars

\* One call of the selection resolver.
NextSel == ResolveStep

SpecSel == InitSel /\ [][NextSel]_vars

\* Transactions that commit on two tags, ended by a search.
NextSearch ==
    \/ calc.op = "none" /\ Begin
    \/ calc.op = "none" /\ Finish
    \/ calc.op = "none" /\ CreateQuiltOp("q", <<"x", "y">>)
    \/ /\ calc.op = "none"
       /\ \E tp \in TagPairs : \E v \in {nCommits + 1} : \E patches \in TxnInputs(v) :
            \E salts \in SaltVectors(1 + Len(patches)) :
              CommitOp("q", tp[1], tp[2], patches,
                       [i \in 1..(1 + Len(patches)) |-> GenId(now, salts[i])])
    \/ SearchStep

SpecSearch == Init /\ [][NextSearch]_vars

\* One transaction that commits on latest, ended by a fetch.
NextFetch ==
    \/ calc.op = "none" /\ Begin
    \/ calc.op = "none" /\ CreateQuiltOp("q", <<"x", "y">>)
    \/ /\ calc.op = "none"
       /\ \E v \in {nCommits + 1} : \E patches \in CommitInputs(v) :
            \E salts \in SaltVectors(1 + Len(patches)) :
              CommitOp("q", "latest", "latest", patches,
                       [i \in 1..(1 + Len(patches)) |-> GenId(now, salts[i])])
    \/ FetchStep

SpecFetch == Init /\ [][NextFetch]_vars

\* Transactions that commit on latest patches of the quilt's axes and of
\* other axes.
NextMisaligned ==
    \/ Begin
    \/ Finish
    \/ Rollback
    \/ CreateQuiltOp("q", <<"x", "y">>)
    \/ \E v \in {nCommits + 1} : \E patches \in TxnInputs(v) \cup MisnamedInputs(v) :
         \E salts \in SaltVectors(1 + Len(patches)) :
           CommitOp("q", "latest", "latest", patches,
                    [i \in 1..(1 + Len(patches)) |-> GenId(now, salts[i])])

SpecMisaligned == Init /\ [][NextMisaligned]_vars

\* The threads contending for the connection, each thread that is inside
\* txn() going on with its loop: a sleep ends and the thread is scheduled
\* again.
SpecLockFair ==
    /\ Init
    /\ [][NextLock]_vars
    /\ \A t \in Threads : WF_vars(TxnLocked(t) \/ TxnSleep(t) \/ TxnGiveUp(t))

\* get_block called on two indices.
SpecBlock == InitBlock /\ [][GetBlockStep]_vars

\* apply and merge called on drawn operands.
NextOperands ==
    \/ ApplyCallStep
    \/ MergeCallStep

SpecOperands == InitOperands /\ [][NextOperands]_vars

\* Patch::new called on drawn axes and content.
SpecNew == InitNew /\ [][PatchNewStep]_vars

\* deserialize_from called on a drawn stream.
SpecCodec == InitCodec /\ [][DeserializeStep]_vars

\* Transactions that create the quilt with one axis list or another and
\* commit to it.
NextQuilt ==
    \/ Begin
    \/ Finish
    \/ Rollback
    \/ DropTxn
    \/ \E axes \in {<<"x", "y">>, <<"y", "x">>, <<"x">>} : CreateQuiltOp("q", axes)
    \/ \E v \in {nCommits + 1} : \E patches \in TxnInputs(v) :
         \E salts \in SaltVectors(1 + Len(patches)) :
           CommitOp("q", "latest", "latest", patches,
                    [i \in 1..(1 + Len(patches)) |-> GenId(now, salts[i])])

SpecQuilt == Init /\ [][NextQuilt]_vars

\* One more create_commit call than the other specifications make: a tag is
\* branched off another and both are advanced.
BranchCommits == MaxCommits + 1

NextBranch ==
    \/ Begin
    \/ Tick
    \/ CreateQuiltOp("q", <<"x", "y">>)
    \/ \E tp \in TagPairs : \E v \in {nCommits + 1} : \E patches \in TxnInputs(v) :
         \E salts \in SaltVectors(1 + Len(patches)) :
           CommitOpUpTo(BranchCommits, "q", tp[1], tp[2], patches,
                        [i \in 1..(1 + Len(patches)) |-> GenId(now, salts[i])])

SpecBranch == Init /\ [][NextBranch]_vars

(***************************************************************************)
(* Properties.                                                             *)
(***************************************************************************)
Quilt == "q"

\* The global axes as the open transaction reads them.
View == AxisView(work, cache)

\* What fetch returns on database db.
Fetched(db, tag, request) == Fetch(db, View, Quilt, tag, request)

RECURSIVE Flatten(_)
Flatten(commits) ==
    IF commits = <<>> THEN <<>> ELSE Head(commits) \o Flatten(Tail(commits))

\* The value the latest of the patches holds for a cell, NaN if none has one.
RECURSIVE LatestWrite(_, _)
LatestWrite(patches, byName) ==
    IF patches = <<>> THEN NaN
    ELSE IF CellOf(patches[Len(patches)], byName) # NaN
         THEN CellOf(patches[Len(patches)], byName)
         ELSE LatestWrite(SubSeq(patches, 1, Len(patches) - 1), byName)

\* The labels, by axis name, of the cell of p at index ix.
LabelsAt(p, ix) ==
    [n \in Range(AxisNamesOf(p)) |->
        p.axes[IndexOf(AxisNamesOf(p), n)].labels[ix[IndexOf(AxisNamesOf(p), n)]]]

\* Every cell of p holds the latest value the patches wrote to it.
ShowsLatestWrite(p, patches) ==
    \A ix \in DOMAIN p.dense : p.dense[ix] = LatestWrite(patches, LabelsAt(p, ix))

\* The labels of a patch on the axis of a name, and their 0-based positions
\* in the global axis.
LabelsOn(p, name) == Range(p.axes[IndexOf(AxisNamesOf(p), name)].labels)

IndicesOn(p, name) == {IndexOf(View[name], l) - 1 : l \in LabelsOn(p, name)}

\* Two patches are apart on some axis of the quilt, and their boxes as
\* get_bounding_box computes them do not meet.
BoxesDisjoint(p, q) ==
    /\ \E d \in DOMAIN work.quilts[Quilt] :
          \/ \A i \in IndicesOn(p, work.quilts[Quilt][d]) :
               \A j \in IndicesOn(q, work.quilts[Quilt][d]) : i < j
          \/ \A i \in IndicesOn(p, work.quilts[Quilt][d]) :
               \A j \in IndicesOn(q, work.quilts[Quilt][d]) : j < i
    /\ ~Intersects(GetBoundingBox(View, p), GetBoundingBox(View, q))

AllDisjoint(patches) ==
    \A i, j \in DOMAIN patches : i < j => BoxesDisjoint(patches[i], patches[j])

\* C1: after successful create_commit calls that advance a tag T (parent_tag =
\* new_tag = T), fetch(quilt, T, selection) returns for every requested cell the
\* value of the latest commit that wrote a value to it, and NaN if none did.
\* Stated for the histories in which every id came out larger than the ones
\* before it and every patch had the quilt's axis order.
FetchReturnsLatestWrite ==
    (/\ txn = "open"
     /\ Quilt \in DOMAIN work.quilts
     /\ ~journal.failed /\ journal.ordered /\ journal.aligned)
    => \A t \in TagNames :
         (journal.tags[t].linear /\ journal.tags[t].commits # <<>>)
         => \A request \in Requests :
              /\ Fetched(work, t, request).ok
              /\ ShowsLatestWrite(Fetched(work, t, request).patch,
                                  Flatten(journal.tags[t].commits))

\* C2: for commits on a tag T whose patches have pairwise disjoint bounding
\* boxes, fetch(T, selection) is the pointwise combination of what the commits
\* wrote; a single patch committed to a new quilt comes back, with its labels,
\* from a fetch with an empty selection list.
DisjointCommitsCombine ==
    (/\ txn = "open"
     /\ Quilt \in DOMAIN work.quilts
     /\ ~journal.failed /\ journal.ordered)
    => \A t \in TagNames :
         (/\ journal.tags[t].linear /\ journal.tags[t].commits # <<>>
          /\ AllDisjoint(Flatten(journal.tags[t].commits)))
         => /\ \A request \in Requests :
                 /\ Fetched(work, t, request).ok
                 /\ ShowsLatestWrite(Fetched(work, t, request).patch,
                                     Flatten(journal.tags[t].commits))
            /\ Len(Flatten(journal.tags[t].commits)) = 1
                 => \A i \in DOMAIN work.quilts[Quilt] :
                      Range(Fetched(work, t, <<>>).patch.axes[i].labels)
                        = LabelsOn(Flatten(journal.tags[t].commits)[1],
                                   work.quilts[Quilt][i])

FinishedTxnIsVisible ==
    /\ (last.op = "begin" /\ prev.outcome = "committed")
       => /\ work = prev.final
          /\ \A t \in TagNames, request \in Requests :
               Fetch(work, work.axes, Quilt, t, request)
                 = Fetch(prev.final, prev.final.axes, Quilt, t, request)
    /\ txn = "open" => disk = begun

\* A transaction that had committed something finished, and the next one has
\* begun.
FinishedTxnWitness ==
    /\ last.op = "begin"
    /\ prev.outcome = "committed"
    /\ DOMAIN prev.final.comms # DOMAIN prev.snap.comms
    /\ DOMAIN work.patches # {}

\* C5: at any time at most one transaction is open on a catalog, under every
\* interleaving of the threads that call txn().
AtMostOneTxnOpen ==
    /\ Cardinality({t \in Threads : pc[t] = "open"}) <= 1
    /\ \A t \in Threads : pc[t] = "open" => holder = t

\* One thread holds the transaction while another has been refused the lock.
ContendedWitness ==
    \E t, u \in Threads : pc[t] = "open" /\ pc[u] = "trying" /\ attempt[u] >= 1

\* C6: a successful create_commit inserts exactly one commit, whose parent is
\* the commit parent_tag pointed to when the call began (null if it pointed to
\* none), sets new_tag to it and leaves every other tag as it was.
CommitInsertsOneChild ==
    (last.op = "create_commit" /\ last.ok)
    => /\ Cardinality(DOMAIN work.comms \ DOMAIN last.before.comms) = 1
       /\ \A c \in DOMAIN last.before.comms :
            c \in DOMAIN work.comms /\ work.comms[c] = last.before.comms[c]
       /\ \A c \in DOMAIN work.comms \ DOMAIN last.before.comms :
            /\ work.comms[c] = (IF <<Quilt, last.parentTag>> \in DOMAIN last.before.tags
                                THEN last.before.tags[<<Quilt, last.parentTag>>]
                                ELSE NoParent)
            /\ work.tags[<<Quilt, last.newTag>>] = c
       /\ DOMAIN work.tags = DOMAIN last.before.tags \cup {<<Quilt, last.newTag>>}
       /\ \A k \in DOMAIN last.before.tags :
            k # <<Quilt, last.newTag>> => work.tags[k] = last.before.tags[k]

\* A commit was made from a tag that pointed to a commit onto another tag.
CommitOntoOtherTagWitness ==
    /\ last.op = "create_commit" /\ last.ok
    /\ last.parentTag # last.newTag
    /\ <<Quilt, last.parentTag>> \in DOMAIN last.before.tags
    /\ work.tags[<<Quilt, last.parentTag>>] # work.tags[<<Quilt, last.newTag>>]

\* C7: commit ids are strictly increasing in creation order while the clock
\* is monotonic: every commit's id is greater than its parent's.
CommitIdsIncrease ==
    ~journal.failed
    => \A c \in DOMAIN work.comms : work.comms[c] # NoParent => work.comms[c] < c

\* C8: after a create_commit on tag latest, friends merged and deleted, fetch
\* through latest returns what it would return had every patch of the commit
\* been stored unmerged and no friend been deleted.  Stated for the histories
\* in which every id came out larger than the ones before it and every patch
\* had the quilt's axis order.
FriendMergeInvariant ==
    (/\ last.op = "create_commit" /\ last.ok
     /\ last.parentTag = "latest" /\ last.newTag = "latest"
     /\ journal.ordered /\ journal.aligned)
    => \A request \in Requests :
         Fetched(work, "latest", request) = Fetched(last.unmerged, "latest", request)

\* C9: the box of every stored patch, on dimension d numbered by the quilt's
\* axis order, contains the global storage index of every label the patch has
\* on the quilt's d-th axis.
BoxContainsLabels ==
    (txn = "open" /\ Quilt \in DOMAIN work.quilts /\ ~journal.failed /\ journal.ordered)
    => \A id \in DOMAIN work.patches :
         \A d \in DOMAIN work.quilts[Quilt] :
           \A i \in IndicesOn(GetPatch(work, id), work.quilts[Quilt][d]) :
             work.patches[id].box[d][1] <= i /\ i <= work.patches[id].box[d][2]

\* C10: the patches fetch applies are in (comm_id, patch_id) ascending order,
\* each at most once.
FetchOrderSorted ==
    (txn = "open" /\ Quilt \in DOMAIN work.quilts)
    => \A t \in TagNames, request \in Requests :
         \A i, j \in DOMAIN FetchRefs(work, View, Quilt, t, request) :
           i < j =>
             LET a == FetchRefs(work, View, Quilt, t, request)[i]
                 b == FetchRefs(work, View, Quilt, t, request)[j]
             IN \/ work.patches[a].comm_id < work.patches[b].comm_id
                \/ work.patches[a].comm_id = work.patches[b].comm_id /\ a < b

\* fetch reads two patches of two commits, the later commit's patch having the
\* smaller patch_id.
FetchAcrossCommitsWitness ==
    /\ txn = "open" /\ Quilt \in DOMAIN work.quilts
    /\ Len(FetchRefs(work, View, Quilt, "latest", <<>>)) = 2
    /\ FetchRefs(work, View, Quilt, "latest", <<>>)[1]
         > FetchRefs(work, View, Quilt, "latest", <<>>)[2]

\* C11: for patches s and t with the same axis names, in any axis order and
\* any label order, after t.apply(s) every cell of t whose labels s has with a
\* value equals that value of s, every other cell of t keeps its value, and
\* the axes, labels and shape of t are as before.
ApplyOverwritesByLabel ==
    calc.op = "apply"
    => /\ calc.ok
       /\ calc.out.axes = calc.t.axes
       /\ DOMAIN calc.out.dense = DOMAIN calc.t.dense
       /\ \A ix \in DOMAIN calc.t.dense :
            calc.out.dense[ix] =
               IF CellOf(calc.s, LabelsAt(calc.t, ix)) # NaN
               THEN CellOf(calc.s, LabelsAt(calc.t, ix))
               ELSE calc.t.dense[ix]

\* s has its axes and its labels in another order than t, one cell of t was
\* overwritten and one kept, and s has a label t has not.
ApplyReorderedWitness ==
    /\ calc.op = "apply"
    /\ AxisNamesOf(calc.s) # AxisNamesOf(calc.t)
    /\ LabelsOn(calc.t, "x") \cap LabelsOn(calc.s, "x") # {}
    /\ LabelsOn(calc.s, "x") \ LabelsOn(calc.t, "x") # {}
    /\ \E ix, jx \in DOMAIN calc.t.dense :
          /\ calc.out.dense[ix] = 2 /\ calc.t.dense[ix] = 1
          /\ calc.out.dense[jx] = 1

\* The first of the operands that has label l on its i-th axis.
FirstWith(operands, i, l) ==
    CHOOSE k \in DOMAIN operands :
        /\ l \in Range(operands[k].axes[i].labels)
        /\ \A j \in 1..(k - 1) : l \notin Range(operands[j].axes[i].labels)

\* C12: merge(p1, ..., pn) returns a patch whose i-th axis has the name of
\* p1's i-th axis and the labels of p1's axis followed by the labels each later
\* operand adds, in order, and whose content is that of a NaN-filled target
\* after apply(p1), ..., apply(pn): on a cell several operands wrote, the last
\* one wins.
MergeUnionsAxesLastWins ==
    (calc.op = "merge" /\ calc.ok)
    => /\ AxisNamesOf(calc.out) = AxisNamesOf(calc.operands[1])
       /\ \A i \in DOMAIN calc.out.axes :
            LET L == calc.out.axes[i].labels
                first == calc.operands[1].axes[i].labels
            IN /\ SubSeq(L, 1, Len(first)) = first
               /\ CheckDistinct(L)
               /\ Range(L) = UNION {Range(calc.operands[k].axes[i].labels) :
                                      k \in DOMAIN calc.operands}
               /\ \A a, b \in (Len(first) + 1)..Len(L) :
                    a < b =>
                      \/ FirstWith(calc.operands, i, L[a]) < FirstWith(calc.operands, i, L[b])
                      \/ /\ FirstWith(calc.operands, i, L[a]) = FirstWith(calc.operands, i, L[b])
                         /\ IndexOf(calc.operands[FirstWith(calc.operands, i, L[a])].axes[i].labels, L[a])
                              < IndexOf(calc.operands[FirstWith(calc.operands, i, L[a])].axes[i].labels, L[b])
       /\ DOMAIN calc.out.dense = IndexSpace(Shape(calc.out))
       /\ ShowsLatestWrite(calc.out, calc.operands)

\* Three operands were merged: the second added a label to an axis of the
\* first, the third one more, and a cell the first two wrote holds the
\* second's value.
MergeThreeWitness ==
    /\ calc.op = "merge" /\ calc.ok /\ Len(calc.operands) = 3
    /\ \E i \in DOMAIN calc.out.axes :
          /\ Len(calc.out.axes[i].labels) = Len(calc.t.axes[i].labels) + 2
          /\ Len(calc.t.axes[i].labels) >= 1
          /\ 3 \notin Range(calc.s.axes[i].labels)
          /\ calc.out.axes[i].labels[Len(calc.out.axes[i].labels)] = 3
    /\ \E ix \in DOMAIN calc.out.dense :
          /\ calc.out.dense[ix] = 2
          /\ CellOf(calc.t, LabelsAt(calc.out, ix)) = 1

Covers(p, byName) ==
    \A i \in DOMAIN p.axes : byName[p.axes[i].name] \in Range(p.axes[i].labels)

\* The leaves returned by the splitter that have a cell for byName.
LeavesWith(byName) == {k \in DOMAIN calc.patches : Covers(calc.patches[k], byName)}

UnionAppendsNewLabels ==
    calc.op = "union" =>
        LET added == SubSeq(calc.a, Len(calc.before) + 1, Len(calc.a))
        IN /\ Len(calc.a) >= Len(calc.before)
           /\ \A i \in DOMAIN calc.before : calc.a[i] = calc.before[i]
           /\ Range(added) = Range(calc.other) \ Range(calc.before)
           /\ Len(added) = Cardinality(Range(added))
           /\ \A i, j \in DOMAIN added :
                 i < j => IndexOf(calc.other, added[i]) < IndexOf(calc.other, added[j])
           /\ calc.ret <=> Len(calc.a) > Len(calc.before)

\* A union of an axis of two labels with an axis that has one of them and a
\* new one in front: the new label is appended.
UnionAppendsWitness ==
    /\ calc.op = "union" /\ calc.ret
    /\ Len(calc.before) = 2 /\ Len(calc.other) = 2 /\ Len(calc.a) = 3
    /\ calc.other[2] \in Range(calc.before)

\* No label is at two places of s.
PairwiseDistinct(s) == \A i, j \in DOMAIN s : i # j => s[i] # s[j]

\* C16: Axis::new returns Ok iff the labels are pairwise distinct; the axis
\* built, every axis grown from it by union, and every global axis as stored,
\* as cached and as committed, has pairwise distinct labels, so that loading
\* it passes the check of Axis::new.
AxisLabelsDistinct ==
    /\ calc.op = "new" => (calc.ok <=> PairwiseDistinct(calc.raw))
    /\ calc.op \in {"new", "union", "union_axis"} => PairwiseDistinct(calc.a)
    /\ \A n \in AxisNameSet :
          /\ PairwiseDistinct(disk.axes[n])
          /\ PairwiseDistinct(work.axes[n])
          /\ PairwiseDistinct(GetAxis(work, cache, n))
          /\ CheckDistinct(work.axes[n])

\* In a second transaction, on top of labels loaded from storage, union_axis
\* has been handed an axis that was grown by a union, and the global axis has
\* three labels.
UnionSequenceWitness ==
    /\ calc.op = "union_axis" /\ calc.ret
    /\ nTxns = 2 /\ disk.axes["x"] # <<>>
    /\ calc.before = disk.axes["x"]
    /\ Len(GetAxis(work, cache, "x")) = 3

\* C18: a union that repeats the union before it, on an Axis value or through
\* union_axis in one transaction, changes no label and returns false (the
\* global axis is looked at while the transaction of the two calls is open).
UnionTwiceIsNoOp ==
    /\ calc.op = "union" /\ calc.rep => calc.a = calc.before /\ ~calc.ret
    /\ calc.op = "union_axis" /\ calc.rep /\ txn = "open" /\ calc.txnNo = nTxns =>
          /\ GetAxis(work, cache, "x") = calc.before
          /\ work.axes["x"] = calc.before
          /\ ~calc.ret

\* union_axis was called twice in a row with an axis of two labels or more,
\* one of which the transaction added to the global axis.
UnionAxisTwiceWitness ==
    /\ calc.op = "union_axis" /\ calc.rep
    /\ txn = "open" /\ calc.txnNo = nTxns
    /\ Len(calc.a) >= 2
    /\ \E l \in Range(calc.a) : l \notin Range(disk.axes["x"])
    /\ disk.axes["x"] # <<>>

\* s is the beginning of t.
IsPrefix(s, t) == Len(s) <= Len(t) /\ \A i \in DOMAIN s : t[i] = s[i]

\* The global axis n as the program sees it: through the open transaction,
\* or as committed.
GlobalAxis(n) == IF txn = "open" THEN GetAxis(work, cache, n) ELSE disk.axes[n]

\* C17: over every step but a rollback the global axis before the step is the
\* beginning of the global axis after it, as seen, as stored by the
\* transaction and as committed: labels are appended, never moved or removed.
GlobalAxisAppendOnly ==
    [][\A n \in AxisNameSet :
          /\ IsPrefix(disk.axes[n], disk'.axes[n])
          /\ ~(txn = "open" /\ txn' = "none" /\ prev'.outcome # "committed") =>
                /\ IsPrefix(GlobalAxis(n), GlobalAxis(n)')
                /\ txn' = "open" => IsPrefix(work.axes[n], work'.axes[n])]_vars

\* The second transaction has appended to an axis that the first one
\* committed with labels, by a create_commit.
GrowAcrossTxnsWitness ==
    /\ txn = "open" /\ nTxns = 2
    /\ last.op = "create_commit" /\ last.ok
    /\ disk.axes["x"] # <<>>
    /\ Len(GetAxis(work, cache, "x")) > Len(disk.axes["x"])

\* The 0-based positions of the global axis that hold a label of the set S.
PositionsOf(lab, S) == {i - 1 : i \in {j \in DOMAIN lab : lab[j] \in S}}

Least(S) == CHOOSE m \in S : \A k \in S : m <= k
Greatest(S) == CHOOSE m \in S : \A k \in S : m >= k

\* C19: for Labels(L) the resolver returns the axis L in the given order, and
\* where the global axis holds a label of L the segment begins at the first
\* position that does and ends at the last one (or right after it, as the
\* segments of the other selections do).
LabelsSegmentSpansMembers ==
    calc.op = "resolve" /\ calc.sel.kind = "Labels" /\ calc.ok =>
        /\ calc.labels = calc.sel.labels
        /\ PositionsOf(calc.lab, Range(calc.sel.labels)) # {} =>
              /\ calc.segment[1] = Least(PositionsOf(calc.lab, Range(calc.sel.labels)))
              /\ calc.segment[2] - Greatest(PositionsOf(calc.lab, Range(calc.sel.labels)))
                    \in {0, 1}

\* C20: for LabelSlice(lo, hi) the resolver returns the global labels from lo
\* through the first hi at or after it, with the segment of their positions;
\* when lo is not in the global axis or hi is not at or after lo, it returns
\* an empty axis and an empty range.
LabelSliceResolves ==
    calc.op = "resolve" /\ calc.sel.kind = "LabelSlice" =>
        LET s == IndexOf(calc.lab, calc.sel.lo)
            e == IF s = 0 THEN {}
                 ELSE {i \in s..Len(calc.lab) : calc.lab[i] = calc.sel.hi}
        IN /\ calc.ok
           /\ e # {} => /\ calc.labels = SubSeq(calc.lab, s, Least(e))
                        /\ calc.segment = <<s - 1, Least(e)>>
           /\ e = {} => /\ calc.labels = <<>>
                        /\ calc.segment[1] >= calc.segment[2]

\* The commits that can be reached from commit c over parent_comm_id: the
\* least set that holds c and the parent of each of its commits.
ReachableFrom(db, c) ==
    CHOOSE S \in SUBSET (DOMAIN db.comms \cup {c}) :
        /\ c \in S
        /\ \A k \in S : (k \in DOMAIN db.comms /\ db.comms[k] # NoParent) => db.comms[k] \in S
        /\ \A T \in SUBSET S :
              (/\ c \in T
               /\ \A k \in T : (k \in DOMAIN db.comms /\ db.comms[k] # NoParent)
                                  => db.comms[k] \in T)
              => T = S

\* The larger lower end is at or below the smaller upper end, on every
\* dimension.
BoxesMeet(a, b) ==
    \A d \in 1..4 :
        (IF a[d][1] >= b[d][1] THEN a[d][1] ELSE b[d][1])
          <= (IF a[d][2] <= b[d][2] THEN a[d][2] ELSE b[d][2])

\* C21: search returns, each once, exactly the patches of the tag's commit
\* (deep = false) or of the commits reachable from it (deep = true) whose box
\* meets one of the boxes handed over, ends included; for a tag that does not
\* exist it returns none.
SearchReturnsScopeAndOverlap ==
    calc.op = "search" =>
        /\ Len(calc.refs) = Cardinality(Range(calc.refs))
        /\ Range(calc.refs) =
             {id \in DOMAIN work.patches :
                /\ <<Quilt, calc.tag>> \in DOMAIN work.tags
                /\ work.patches[id].comm_id \in
                      (IF calc.deep THEN ReachableFrom(work, work.tags[<<Quilt, calc.tag>>])
                       ELSE {work.tags[<<Quilt, calc.tag>>]})
                /\ \E k \in DOMAIN calc.boxes : BoxesMeet(work.patches[id].box, calc.boxes[k])}

\* A deep search through a tag with two commits on its ancestry returned a
\* patch of the parent commit and left out a patch in scope whose box does not
\* meet the boxes.
SearchWitness ==
    /\ calc.op = "search" /\ calc.deep
    /\ <<Quilt, calc.tag>> \in DOMAIN work.tags
    /\ \E id \in Range(calc.refs) : work.patches[id].comm_id # work.tags[<<Quilt, calc.tag>>]
    /\ \E id \in DOMAIN work.patches :
          /\ id \notin Range(calc.refs)
          /\ work.patches[id].comm_id \in Ancestry(work, work.tags[<<Quilt, calc.tag>>])

\* The number of elements the request of the recorded fetch asks for: per
\* axis of the quilt the labels its selection names, the global axis for All
\* and for no selection.
RequestedElems ==
    Product([i \in DOMAIN work.quilts[Quilt] |->
               IF i <= Len(calc.request) /\ calc.request[i].kind = "Labels"
               THEN Len(calc.request[i].labels)
               ELSE Len(View[work.quilts[Quilt][i]])])

\* C22: a fetch that returns Ok returns a patch with one axis per axis of the
\* quilt, named and ordered as the quilt's axes; the i-th axis has the labels
\* the i-th selection names (the global axis for All, and for a selection the
\* request does not have), and selections beyond the quilt's axes change
\* nothing.
FetchAxesFollowQuilt ==
    calc.op = "fetch" =>
        /\ calc.ok <=> (Quilt \in DOMAIN work.quilts /\ RequestedElems <= SmallFetchElems)
        /\ calc.ok =>
             /\ AxisNamesOf(calc.patch) = work.quilts[Quilt]
             /\ \A i \in DOMAIN work.quilts[Quilt] :
                   calc.patch.axes[i].labels =
                      IF i <= Len(calc.request) /\ calc.request[i].kind = "Labels"
                      THEN calc.request[i].labels
                      ELSE View[work.quilts[Quilt][i]]
             /\ DOMAIN calc.patch.dense = IndexSpace(Shape(calc.patch))

\* A fetch with three selections on the quilt of two axes, the first All and
\* the second the labels 2, 1, after a commit of a patch whose axes are in the
\* other order: the patch returned holds a value.
FetchSurplusWitness ==
    /\ calc.op = "fetch" /\ calc.ok
    /\ Len(calc.request) = 3
    /\ calc.request[1].kind = "All" /\ calc.request[2].kind = "Labels"
    /\ calc.request[3].kind = "Labels"
    /\ ~journal.aligned
    /\ \E ix \in DOMAIN calc.patch.dense : calc.patch.dense[ix] # NaN

\* Some patch of the list has a set of axis names that is not the set of the
\* quilt's axes.
Misnamed(db, patches) ==
    \E k \in DOMAIN patches : Range(AxisNamesOf(patches[k])) # Range(db.quilts[Quilt])

\* C23: a create_commit on an existing quilt with a patch whose set of axis
\* names differs from the quilt's fails with MisalignedAxes and leaves the
\* axes, patches, commits and tags of the transaction, the axis cache and the
\* committed database as they were.
MisalignedCommitChangesNothing ==
    [][(/\ nCommits' = nCommits + 1
        /\ Quilt \in DOMAIN work.quilts
        /\ Misnamed(work, last'.patches))
       => (/\ ~last'.ok
           /\ last'.err = "MisalignedAxes"
           /\ work' = work
           /\ cache' = cache
           /\ disk' = disk)]_vars

\* A commit of two patches, the first of the quilt's axes with a label the
\* global axis x does not have, the second with an axis z, failed on a quilt
\* that already had a commit.
MisalignedCommitWitness ==
    /\ last.op = "create_commit"
    /\ ~last.ok /\ last.err = "MisalignedAxes"
    /\ Len(last.patches) = 2
    /\ Misnamed(last.before, last.patches)
    /\ last.before.comms # <<>>
    /\ MaxLabelX \notin Range(GetAxis(last.before, cache, "x"))
    /\ work = last.before

\* C24: a call of txn() ends: it makes at most LockAttempts attempts, having
\* slept 1, 2, 4, ... milliseconds after the failed ones; an attempt that
\* finds the lock free returns the open transaction, an attempt is counted
\* as failed only when the lock was held, and the call fails only after
\* LockAttempts failed attempts.
TxnCallEnds ==
    /\ [](\A t \in Threads : /\ attempt[t] <= LockAttempts
                             /\ slept[t] = 2 ^ attempt[t] - 1)
    /\ [][\A t \in Threads :
            /\ (pc[t] = "trying" /\ holder = 0 /\ attempt[t] < LockAttempts
                  /\ <<pc[t], attempt[t]>> # <<pc'[t], attempt'[t]>>)
                 => pc'[t] = "open" /\ holder' = t
            /\ (pc[t] = "trying" /\ attempt'[t] = attempt[t] + 1)
                 => holder # 0 /\ pc'[t] = "trying"
            /\ (pc[t] = "trying" /\ pc'[t] = "idle") => attempt[t] = LockAttempts]_vars
    /\ \A t \in Threads : (pc[t] = "trying") ~> (pc[t] # "trying")

\* One thread got the transaction after it had been refused the lock, and
\* another has given up after LockAttempts attempts.
TxnGaveUpWitness ==
    \E t, u \in Threads :
        /\ pc[t] = "idle" /\ attempt[t] = LockAttempts
        /\ pc[u] = "open" /\ attempt[u] >= 1

\* C25: an open transaction ends in one step, as committed (finish) or as
\* rolled back (rollback or drop), and is not used again: after finish the
\* database holds what the transaction saw, the ROLLBACK of its drop
\* included; after rollback or drop it holds what it held; a transaction
\* that has ended changes nothing, and the next one to be open is a new one.
TxnEndsOnce ==
    [][/\ (txn = "open" /\ txn' = "none")
          => /\ prev'.outcome \in {"committed", "rolledback", "dropped"}
             /\ prev'.final = work /\ prev'.snap = begun
             /\ disk' = IF prev'.outcome = "committed" THEN work ELSE disk
             /\ holder' = 0
       /\ txn = "none"
          => /\ disk' = disk /\ prev' = prev
             /\ txn' = "open" => nTxns' = nTxns + 1 /\ work' = disk /\ begun' = disk
       /\ (txn = "open" /\ txn' = "open")
          => nTxns' = nTxns /\ disk' = disk /\ prev' = prev]_vars

\* The second transaction has finished with a commit of its own, after the
\* first had finished too: the database holds both.
TxnEndsOnceWitness ==
    /\ txn = "none"
    /\ nTxns = MaxTxns
    /\ prev.outcome = "committed"
    /\ prev.snap.comms # <<>>
    /\ DOMAIN prev.final.comms # DOMAIN prev.snap.comms
    /\ disk = prev.final

\* The aligned blocks of 2^k indices, k up to WordBits, as <<first, last>>.
AlignedBlocks ==
    UNION {{<<a, a + 2 ^ k - 1>> : a \in {n \in 0..(2 ^ WordBits - 1) : n % 2 ^ k = 0}} :
             k \in 0..WordBits}

ApplyMismatchIsMisalignedAxes ==
    (calc.op = "apply" /\ Range(AxisNamesOf(calc.t)) # Range(AxisNamesOf(calc.s)))
    => /\ ~calc.ok
       /\ calc.err = "MisalignedAxes"
       /\ calc.out = calc.t

\* The unions of the operands' axes hold at most cap elements.
UnionFits(cap, operands) ==
    Product([i \in DOMAIN operands[1].axes |->
               Cardinality(UNION {Range(operands[k].axes[i].labels) : k \in DOMAIN operands})])
       <= cap

\* C28 as stated: merge fails when there is no operand or some operand's
\* axis name sequence is not the first's, and succeeds on every other list.
MergeFailsOnlyOnNames ==
    calc.op = "merge"
    => (calc.ok <=> /\ calc.operands # <<>>
                    /\ \A k \in DOMAIN calc.operands :
                          AxisNamesOf(calc.operands[k]) = AxisNamesOf(calc.operands[1]))

\* C28: merge fails, returning no patch, when there is no operand or some
\* operand's axis name sequence is not the first's, and succeeds on every
\* other list whose per-axis label unions hold no more elements than
\* Patch::new allocates.
MergeFailsOnNamesOrSize ==
    calc.op = "merge"
    => /\ calc.ok <=> /\ calc.operands # <<>>
                      /\ \A k \in DOMAIN calc.operands :
                            AxisNamesOf(calc.operands[k]) = AxisNamesOf(calc.operands[1])
                      /\ UnionFits(SmallPatchElems, calc.operands)
       /\ calc.ok <=> calc.out # <<>>
       /\ calc.ok => AxisNamesOf(calc.out[1]) = AxisNamesOf(calc.operands[1])

\* A merge of three operands with the same axis names in the same order,
\* two of them with their labels in different orders, returned a patch; and
\* so the claim's case of success happens.
MergeWitness ==
    /\ calc.op = "merge" /\ calc.ok
    /\ Len(calc.operands) = 3
    /\ calc.operands[1].axes # calc.operands[2].axes
    /\ \E ix \in DOMAIN calc.out[1].dense : calc.out[1].dense[ix] = calc.operands[3].dense[<<1, 1>>]

\* C29: the splitter fails whenever some label of the patch is not in the
\* global axis of that name.
SplitFailsOnUnknownLabel ==
    (/\ calc.op = "split"
     /\ \E i \in DOMAIN calc.t.axes :
           ~(Range(calc.t.axes[i].labels) \subseteq Range(calc.ax[calc.t.axes[i].name])))
    => ~calc.ok

\* C30: a fetch whose resolved axes multiply to more elements than the cap
\* fails with TooLarge, without having queried the patch index or read a
\* patch.
FetchTooLargeBeforeIO ==
    (/\ calc.op = "fetch"
     /\ Quilt \in DOMAIN work.quilts
     /\ RequestedElems > SmallFetchElems)
    => /\ ~calc.ok
       /\ calc.err = "TooLarge"
       /\ ~calc.searched
       /\ calc.read = 0

\* A fetch of everything failed with TooLarge on a quilt that holds patches
\* over more labels than the cap.
FetchTooLargeWitness ==
    /\ calc.op = "fetch"
    /\ calc.err = "TooLarge"
    /\ calc.request = <<>>
    /\ DOMAIN work.patches # {}
    /\ Len(View["x"]) = MaxLabelX


\* C31: Patch::new fails for no axes and for more than four, and a patch it
\* returns has one to four axes, each as long as the dense array on its
\* dimension.
PatchNewTakesOneToFourAxes ==
    calc.op = "new"
    => /\ Len(calc.axes) \notin 1..4 => calc.out.err \notin {"none", "Panic"}
       /\ calc.out.err = "none"
          => /\ Len(calc.out.axes) \in 1..4
             /\ \A i \in DOMAIN calc.out.axes :
                   Len(calc.out.axes[i].labels) = calc.out.dims[i]

\* C32: Patch::new fails with TooLarge for more elements than the cap, with
\* the dense array allocated or supplied.
PatchNewRejectsTooLarge ==
    (/\ calc.op = "new"
     /\ calc.axes # <<>>
     /\ Product([i \in DOMAIN calc.axes |-> Len(calc.axes[i].labels)]) > SmallPatchElems
     /\ calc.content \in {<<>>, <<[i \in DOMAIN calc.axes |-> Len(calc.axes[i].labels)]>>})
    => calc.out.err = "TooLarge"

\* C33: deserializing a stream whose tag has another magic than Magic or
\* another version than FormatVersion fails with a serialization error and
\* returns no patch.
DeserializeChecksMagicAndVersion ==
    (/\ calc.op = "deserialize"
     /\ (calc.bytes.magic # Magic \/ calc.bytes.version # FormatVersion))
    => calc.err = "SerializationError" /\ calc.out = <<>>

\* C34 as stated: once get_quilt_details returns an axis list for the quilt,
\* it returns that list after every later operation.
QuiltDetailsStay ==
    [][(Quilt \in DOMAIN work.quilts)
         => (GetQuiltDetails(work', Quilt) = GetQuiltDetails(work, Quilt))]_vars

\* C34: no operation changes the axis list get_quilt_details returns for a
\* quilt, a second create_quilt with another list included, except that the
\* quilt is gone when the transaction that created it is rolled back or
\* dropped; a committed quilt keeps its list for good; and get_quilt_details
\* of a name that has no quilt fails with NotFound.
QuiltAxesNeverChange ==
    [][/\ (/\ Quilt \in DOMAIN work.quilts
           /\ ~(/\ txn = "open" /\ txn' = "none"
                /\ prev'.outcome \in {"rolledback", "dropped"}
                /\ Quilt \notin DOMAIN begun.quilts))
          => GetQuiltDetails(work', Quilt) = GetQuiltDetails(work, Quilt)
       /\ Quilt \in DOMAIN disk.quilts
          => GetQuiltDetails(disk', Quilt) = GetQuiltDetails(disk, Quilt)
       /\ Quilt \notin DOMAIN work.quilts
          => GetQuiltDetails(work, Quilt).err = "NotFound"]_vars

\* A create_quilt with another axis list has just been ignored on a quilt
\* that was created in an earlier transaction and holds a commit.
QuiltRecreateWitness ==
    /\ last.op = "create_quilt"
    /\ ~last.ok
    /\ last.axes # work.quilts[Quilt]
    /\ Quilt \in DOMAIN disk.quilts
    /\ work.comms # <<>>

CellRequest(l) == <<SelLabels(<<l>>), SelLabels(<<1>>)>>

\* C36: a create_commit that advances a tag leaves what fetch returns for
\* every other tag of the quilt as it was, for every label the global axis
\* had before the call.  Stated of the runs in which gen_id never returned
\* an id at or below an earlier one, so that no row is replaced by name.
OtherTagsFetchTheSame ==
    (last.op = "create_commit" /\ last.ok /\ journal.ordered) =>
        \A t \in TagNames \ {last.newTag} :
            <<Quilt, t>> \in DOMAIN last.before.tags =>
                \A l \in Range(last.before.axes["x"]) :
                    Fetch(work, View, Quilt, t, CellRequest(l))
                      = Fetch(last.before, View, Quilt, t, CellRequest(l))

\* Every id in db is below the ids gen_id can return at the reading `clock`
\* of the clock: no insert of the call meets a key that is there.
IdsAreFresh(db, clock) ==
    \A id \in DOMAIN db.comms \cup DOMAIN db.patches : id < GenId(clock, 0 - SaltSpan)

\* C37: a create_commit that returns an error leaves the database the
\* transaction sees as it was before the call.  Stated of the calls whose
\* ids are new, so that the error is not a key that gen_id repeated.
FailedCommitChangesNothing ==
    (last.op = "create_commit" /\ ~last.ok /\ IdsAreFresh(last.before, last.at))
        => work = last.before


\* C38: within a transaction get_axis returns the labels stored for the axis,
\* in storage order, whatever get_axis, union_axis and create_commit calls
\* went before; an axis whose name was never stored is empty.
GetAxisReturnsStored ==
    \A n \in AxisNameSet :
        /\ GetAxis(work, cache, n) = work.axes[n]
        /\ n \notin work.axisNames => GetAxis(work, cache, n) = <<>>

\* A create_commit has appended to an axis that the transaction had cached
\* with labels in it.
CachedAxisGrownWitness ==
    /\ txn = "open"
    /\ last.op = "create_commit" /\ last.ok
    /\ "x" \in DOMAIN cache
    /\ Len(last.before.axes["x"]) >= 1
    /\ Len(work.axes["x"]) > Len(last.before.axes["x"])
    /\ cache["x"] = work.axes["x"]

\* The commits visited from c by following parent_comm_id, at most fuel of
\* them.
RECURSIVE ParentWalk(_, _, _)
ParentWalk(db, c, fuel) ==
    IF fuel = 0 \/ c \notin DOMAIN db.comms THEN <<>>
    ELSE <<c>> \o ParentWalk(db, db.comms[c], fuel - 1)

\* From the commit of every tag of db the walk meets no commit twice and
\* ends, within as many steps as there are commits, at a commit without a
\* parent.
WalksEnd(db) ==
    \A key \in DOMAIN db.tags :
        LET walk == ParentWalk(db, db.tags[key], Cardinality(DOMAIN db.comms) + 1)
        IN /\ walk # <<>>
           /\ Len(walk) <= Cardinality(DOMAIN db.comms)
           /\ \A i, j \in DOMAIN walk : i # j => walk[i] # walk[j]
           /\ db.comms[walk[Len(walk)]] = NoParent

\* C39: after any sequence of create_commit calls the walk along
\* parent_comm_id from the commit of any tag visits no commit twice and ends
\* at a commit with a null parent, in the open transaction and as committed.
AncestryIsAChain == WalksEnd(work) /\ WalksEnd(disk)

\* A tag's commit has a parent that is the commit of another tag, and both
\* are committed.
AncestryTwoDeepWitness ==
    /\ <<Quilt, "dev">> \in DOMAIN disk.tags
    /\ <<Quilt, "latest">> \in DOMAIN disk.tags
    /\ disk.comms[disk.tags[<<Quilt, "dev">>]] = disk.tags[<<Quilt, "latest">>]
    /\ Len(ParentWalk(disk, disk.tags[<<Quilt, "dev">>], MaxCommits + 1)) = 2

\* The patch index and the content store of db hold the same patch ids.
RefsMatchContents(db) == DOMAIN db.patches = DOMAIN db.contents

\* C40: after any sequence of create_commit calls, friend deletions included,
\* the patch index and the content store hold the same patch ids, in the open
\* transaction and as committed, and search returns no ref twice and only
\* refs that get_patch can load.
PatchIndexMatchesContent ==
    /\ RefsMatchContents(work)
    /\ RefsMatchContents(disk)
    /\ calc.op = "search" =>
          /\ \A i, j \in DOMAIN calc.refs : i # j => calc.refs[i] # calc.refs[j]
          /\ \A i \in DOMAIN calc.refs :
                /\ GetPatchOk(work, calc.refs[i])
                /\ DeserializeFrom(work.contents[calc.refs[i]]).err = "none"

\* A search has returned a ref after a create_commit that deleted a friend.
SearchAfterFriendDeletedWitness ==
    /\ calc.op = "search" /\ calc.refs # <<>>
    /\ last.op = "create_commit" /\ last.ok
    /\ \E id \in DOMAIN last.before.patches :
          id \notin DOMAIN work.patches /\ id \notin DOMAIN work.contents
====
